---- MODULE Spec2Model ----
(***************************************************************************)
(* Model of codemode-rs: the sandboxed execution bridge (sandbox.rs), the  *)
(* access-path computation (ts_interface.rs) and the caller table          *)
(* (client.rs).                                                            *)
(*                                                                         *)
(* Strings are sequences of one-character strings, so that sanitisation,  *)
(* splitting and prefixing are computed character by character.  Error     *)
(* texts are sequences of text fragments, so that wrapping a message is a  *)
(* concatenation that can be told from the message itself.                 *)
(***************************************************************************)
EXTENDS Integers, Sequences, FiniteSets, TLC

(***************************************************************************)
(* Bounds of the model.                                                    *)
(***************************************************************************)
\* async and sync stub invocations a script makes in one execution
MaxCalls == 2
\* SandboxConfig.timeout_ms of the modelled executions, in clock ticks
TimeoutTicks == 1

\* recv_timeout(Duration::from_millis(5)): one blocking poll interval is one
\* tick of the model's clock
PollTicks == 1

\* no value: for a script value, a provider result
NoVal == [type |-> "none"]

NoRes == [ok |-> FALSE, val |-> "none", msg |-> <<>>]

(***************************************************************************)
(* ts_interface.rs: identifiers and access paths.                          *)
(***************************************************************************)
\* the characters of the names of the model are digits, letters and
\* punctuation
IsAsciiDigit(ch) == ch \in {"0", "1", "2", "3", "4", "5", "6", "7", "8", "9"}

IsAsciiAlphanumeric(ch) ==
    \/ IsAsciiDigit(ch)
    \/ ch \in {"a", "b", "c", "d", "e", "f", "g", "h", "i", "j", "k", "l", "m",
               "n", "o", "p", "q", "r", "s", "t", "u", "v", "w", "x", "y", "z",
               "A", "B", "C", "D", "E", "F", "G", "H", "I", "J", "K", "L", "M",
               "N", "O", "P", "Q", "R", "S", "T", "U", "V", "W", "X", "Y", "Z"}

\* one iteration of the loop of sanitize_identifier
SanitizeChar(idx, ch) ==
    IF IsAsciiAlphanumeric(ch) \/ ch = "_"
    THEN IF idx = 1 /\ IsAsciiDigit(ch) THEN <<"_", ch>> ELSE <<ch>>
    ELSE <<"_">>

RECURSIVE SanitizeFrom(_, _)
SanitizeFrom(name, idx) ==
    IF idx > Len(name) THEN <<>>
    ELSE SanitizeChar(idx, name[idx]) \o SanitizeFrom(name, idx + 1)

sanitize_identifier(name) ==
    LET sanitized == SanitizeFrom(name, 1)
    IN  IF sanitized = <<>> THEN <<"_">> ELSE sanitized

Contains(s, ch) == \E i \in 1..Len(s) : s[i] = ch

\* str::split(ch): the parts between the occurrences of ch (always >= 1 part)
RECURSIVE SplitAt(_, _, _, _)
SplitAt(s, ch, i, cur) ==
    IF i > Len(s) THEN <<cur>>
    ELSE IF s[i] = ch THEN <<cur>> \o SplitAt(s, ch, i + 1, <<>>)
    ELSE SplitAt(s, ch, i + 1, Append(cur, s[i]))

Split(s, ch) == SplitAt(s, ch, 1, <<>>)

\* [String]::join(sep)
RECURSIVE Join(_, _)
Join(parts, sep) ==
    IF Len(parts) = 0 THEN <<>>
    ELSE IF Len(parts) = 1 THEN parts[1]
    ELSE parts[1] \o sep \o Join(Tail(parts), sep)

MapSanitize(parts) == [i \in 1..Len(parts) |-> sanitize_identifier(parts[i])]

tool_access_path(name) ==
    IF Contains(name, ".")
    THEN LET parts == Split(name, ".")
             sanitized_manual == sanitize_identifier(Head(parts))
             tool_name == Join(MapSanitize(Tail(parts)), <<"_">>)
         IN  sanitized_manual \o <<".">> \o tool_name
    ELSE sanitize_identifier(name)

\* client.rs apply_prefix: format!("{}.{}", prefix, name)
applyPrefixBug(prefix, name) == name

apply_prefix(prefix, name) == prefix \o <<".">> \o name

(***************************************************************************)
(* Tool descriptors and the interface generator (ts_interface.rs).  A text *)
(* is a sequence of fragments; "\n" is a fragment of its own.              *)
(***************************************************************************)
\* a JSON schema, as far as the interface generator reads it: its "type"
\* ("none" when the key is absent), its "properties" in the order the map
\* iterates them (NoProperties when the key is absent) and the strings of
\* its "required" array
\* a property schema: enum and description are <<>> when the key is absent
Property(name, type, enum, description) ==
    [name |-> name, type |-> type, enum |-> enum, description |-> description]

NoProperties == <<Property("", "absent", <<>>, <<>>)>>

JsonSchema(type, properties, required) ==
    [type |-> type, properties |-> properties, required |-> required]

\* the schemas of tests/ts_interface.rs
Owner == Property("owner", "string", <<>>, <<"Repository owner">>)

PullNumber == Property("pull_number", "integer", <<>>, <<>>)

State == Property("state", "string", <<"open", "closed">>, <<>>)

SchemaA == JsonSchema("object", <<Owner, State>>, <<"owner">>)

SchemaB == JsonSchema("object", <<PullNumber>>, <<>>)

TitleSchema ==
    JsonSchema("object", <<Property("title", "string", <<>>, <<>>)>>, <<>>)

\* a Tool descriptor with its input schema
Descriptor(name, is_async, inputs) ==
    [name |-> name, is_async |-> is_async, inputs |-> inputs,
     outputs |-> TitleSchema, description |-> <<"Fetch a pull request">>,
     tags |-> <<<<"github">>, <<"pulls">>>>]

\* text.replace("*/", "*\\/").replace('\n', " ")
escape_comment(text) ==
    [i \in 1..Len(text) |->
        IF text[i] = "*/" THEN "*\\/" ELSE IF text[i] = "\n" THEN " " ELSE text[i]]

\* the union of the enum values, each a string printed by serde_json::to_string
EnumUnion(values) ==
    Join([i \in 1..Len(values) |-> <<"\"", values[i], "\"">>], <<" | ">>)

\* json_schema_to_typescript_type of a property schema (the property schemas
\* of the model have no properties and no items of their own)
json_schema_to_typescript_type(schema) ==
    IF schema.enum # <<>> THEN EnumUnion(schema.enum)
    ELSE CASE schema.type = "object" -> <<"{ [key: string]: any }">>
           [] schema.type = "array" -> <<"(", "any", ")[]">>
           [] schema.type = "string" -> <<"string">>
           [] schema.type \in {"number", "integer"} -> <<"number">>
           [] schema.type = "boolean" -> <<"boolean">>
           [] schema.type = "null" -> <<"null">>
           [] OTHER -> <<"any">>

\* required_set.iter().any(|req| req == prop_name)
is_required(required, prop_name) ==
    \E i \in 1..Len(required) : required[i] = prop_name

optionalMarkerBug(required, prop_name) ==
    IF is_required(required, prop_name) THEN <<"?">> ELSE <<>>

optional_marker(required, prop_name) ==
    IF is_required(required, prop_name) THEN <<>> ELSE <<"?">>

\* the lines of one property: its description comment, if any, and its
\* declaration
PropertyLines(prop, required, indent) ==
    (IF prop.description # <<>>
     THEN <<<<indent, "/** ">> \o escape_comment(prop.description) \o <<" */">>>>
     ELSE <<>>)
    \o <<<<indent, prop.name>> \o optional_marker(required, prop.name)
         \o <<": ">> \o json_schema_to_typescript_type(prop) \o <<";">>>>

RECURSIVE ObjectLines(_, _, _)
ObjectLines(props, required, indent) ==
    IF props = <<>> THEN <<>>
    ELSE PropertyLines(Head(props), required, indent)
         \o ObjectLines(Tail(props), required, indent)

json_schema_to_object_content(schema) ==
    IF schema.type # "object" THEN <<"    [key: string]: any;">>
    ELSE LET lines == IF schema.properties = NoProperties THEN <<>>
                      ELSE ObjectLines(schema.properties, schema.required, "    ")
         IN  IF lines = <<>> THEN <<"    [key: string]: any;">>
             ELSE Join(lines, <<"\n">>)

object_schema_to_typescript(schema, type_name) ==
    IF schema.properties = NoProperties
    THEN <<"interface ">> \o type_name
         \o <<" {", "\n", "  [key: string]: any;", "\n", "}">>
    ELSE <<"interface ">> \o type_name \o <<" {", "\n">>
         \o Join(ObjectLines(schema.properties, schema.required, "  "), <<"\n">>)
         \o <<"\n", "}">>

\* json_schema_to_typescript of a top-level schema (the top-level schemas of
\* the model have no items, no enum, and a string or no "type")
json_schema_to_typescript(schema, type_name) ==
    CASE schema.type = "object" -> object_schema_to_typescript(schema, type_name)
      [] schema.type = "array" -> <<"type ">> \o type_name \o <<" = any[];">>
      [] schema.type = "string" -> <<"type ">> \o type_name \o <<" = ", "string", ";">>
      [] schema.type \in {"number", "integer"} ->
            <<"type ">> \o type_name \o <<" = ", "number", ";">>
      [] schema.type = "boolean" -> <<"type ">> \o type_name \o <<" = ", "boolean", ";">>
      [] schema.type = "null" -> <<"type ">> \o type_name \o <<" = null;">>
      [] OTHER -> <<"type ">> \o type_name \o <<" = any;">>

\* lines 51-84: the interface of a tool with a dotted name
NamespacedContent(tool) ==
    LET parts == Split(tool.name, ".")
        sanitized_manual == sanitize_identifier(Head(parts))
        tool_name == Join(MapSanitize(Tail(parts)), <<"_">>)
        input_content == json_schema_to_object_content(tool.inputs)
        output_content == json_schema_to_object_content(tool.outputs)
        output_interface ==
            IF tool.is_async
            THEN <<"  type ">> \o tool_name \o <<"Output = Promise<">> \o tool_name
                 \o <<"OutputBase>;", "\n", "\n", "  interface ">> \o tool_name
                 \o <<"OutputBase {", "\n">> \o output_content \o <<"\n", "  }">>
            ELSE <<"  interface ">> \o tool_name \o <<"Output {", "\n">>
                 \o output_content \o <<"\n", "  }">>
    IN  <<"namespace ">> \o sanitized_manual \o <<" {", "\n", "  interface ">>
        \o tool_name \o <<"Input {", "\n">> \o input_content
        \o <<"\n", "  }", "\n", "\n">> \o output_interface \o <<"\n", "}">>

\* lines 85-102: the interface of a tool with an undotted name
RootContent(tool) ==
    LET sanitized_tool == sanitize_identifier(tool.name)
        input_type == json_schema_to_typescript(tool.inputs,
                                                sanitized_tool \o <<"Input">>)
        output_type_name == IF tool.is_async THEN sanitized_tool \o <<"OutputBase">>
                            ELSE sanitized_tool \o <<"Output">>
        output_type == json_schema_to_typescript(tool.outputs, output_type_name)
    IN  input_type \o <<"\n", "\n">> \o output_type
        \o (IF tool.is_async
            THEN <<"\n", "\n", "type ">> \o sanitized_tool \o <<"Output = Promise<">>
                 \o sanitized_tool \o <<"OutputBase>;">>
            ELSE <<>>)

interface_content(tool) ==
    IF Contains(tool.name, ".") THEN NamespacedContent(tool) ELSE RootContent(tool)

\* lines 104-122
interface_string(tool) ==
    interface_content(tool)
    \o <<"\n", "\n", "/**", "\n", " * ">> \o escape_comment(tool.description)
    \o <<"\n", " * Tags: ">> \o escape_comment(Join(tool.tags, <<", ">>))
    \o <<"\n", " * Access as: ">>
    \o (IF tool.is_async THEN <<"await ">> ELSE <<>>)
    \o tool_access_path(tool.name) \o <<"(args)", "\n", " */">>

\* what line 124 puts into the cache for the tool
cachedBug(tool) == interface_content(tool)

Cached(tool) == interface_string(tool)

\* ToolInterfaceGenerator::tool_to_typescript_interface on a cache: the text
\* it returns and the cache afterwards
Interface(entries, tool) ==
    IF tool.name \in DOMAIN entries
    THEN [text |-> entries[tool.name], entries |-> entries]
    ELSE [text |-> interface_string(tool),
          entries |-> (tool.name :> Cached(tool)) @@ entries]

\* the cache after tool_to_typescript_interface of every tool of a list
RECURSIVE Interfaces(_, _)
Interfaces(entries, list) ==
    IF list = <<>> THEN entries
    ELSE Interfaces(Interface(entries, Head(list)).entries, Tail(list))

(***************************************************************************)
(* The world of an execution: the tool list and the caller table handed to *)
(* Sandbox::execute.                                                       *)
(***************************************************************************)
\* a Tool descriptor whose schemas say nothing
Tool(name, is_async) ==
    Descriptor(name, is_async, JsonSchema("none", NoProperties, <<>>))

\* client.rs ToolCallerEntry; caller is CallerKind::Async or ::Sync of a provider
ToolCallerEntry(tool, raw_name, kind, provider) ==
    [tool |-> tool, raw_name |-> raw_name, kind |-> kind, provider |-> provider]

NoCaller == "none"

(***************************************************************************)
(* Engine objects.  A value bound on the global object is a native stub    *)
(* (a function object, which carries its callback state and may carry      *)
(* properties of its own) or a namespace object.                           *)
(***************************************************************************)
EmptyProps == <<>>

Undefined == [kind |-> "undefined"]

FnValue(st) == [kind |-> "fn", st |-> st, props |-> EmptyProps]

ObjValue == [kind |-> "obj", props |-> EmptyProps]

\* the value of the global property NaN
NaNValue == [kind |-> "number"]

\* the global object of a new context; of its built-in properties the model
\* keeps NaN, which like undefined and Infinity is no object and is neither
\* writable nor configurable
ContextGlobal == <<"N", "a", "N">> :> NaNValue

\* v8::Value::is_object: functions are objects
is_object(v) == v.kind \in {"fn", "obj"}

ObjGet(obj, key) == IF key \in DOMAIN obj THEN obj[key] ELSE Undefined

\* a set that also replaces a property that is not writable
objSetBug(obj, key, v) == (key :> v) @@ obj

\* v8::Object::set: a property that is not writable keeps its value, and no
\* exception is thrown (the numbers of the model are such properties)
ObjSet(obj, key, v) ==
    IF ObjGet(obj, key).kind = "number" THEN obj ELSE (key :> v) @@ obj

\* ensure_namespace on the global object: the global object afterwards
ensure_namespace(global, name) ==
    IF is_object(ObjGet(global, name)) THEN global
    ELSE ObjSet(global, name, ObjValue)

\* the ToolCallbackState that inject_tools builds for one tool
RawNameOf(tool, callers) ==
    IF tool.name \in DOMAIN callers THEN callers[tool.name].raw_name ELSE tool.name

\* a stub state that names a provider although the table has no entry
toolCallbackStateBug(tool, callers) ==
    [tool_name    |-> tool.name,
     raw_name     |-> RawNameOf(tool, callers),
     async_caller |-> IF tool.name \in DOMAIN callers /\ callers[tool.name].kind = "Async"
                      THEN callers[tool.name].provider ELSE "default",
     sync_caller  |-> IF tool.name \in DOMAIN callers /\ callers[tool.name].kind = "Sync"
                      THEN callers[tool.name].provider ELSE "default",
     is_async     |-> tool.is_async]

ToolCallbackState(tool, callers) ==
    LET has == tool.name \in DOMAIN callers
    IN  [tool_name    |-> tool.name,
         raw_name     |-> RawNameOf(tool, callers),
         async_caller |-> IF has /\ callers[tool.name].kind = "Async"
                          THEN callers[tool.name].provider ELSE NoCaller,
         sync_caller  |-> IF has /\ callers[tool.name].kind = "Sync"
                          THEN callers[tool.name].provider ELSE NoCaller,
         is_async     |-> tool.is_async]

\* one iteration of the loop of inject_tools: the global object afterwards.
\* tool_access_path yields at most one '.', so parts has one or two elements.
InjectOne(global, tool, callers) ==
    LET parts == Split(tool_access_path(tool.name), ".")
        fn    == FnValue(ToolCallbackState(tool, callers))
    IN  IF Len(parts) = 1
        THEN ObjSet(global, parts[1], fn)
        ELSE LET g  == ensure_namespace(global, parts[1])
                 ns == ObjGet(g, parts[1])
             IN  IF is_object(ns)
                 THEN ObjSet(g, parts[1],
                             [ns EXCEPT !.props = ObjSet(ns.props, parts[2], fn)])
                 ELSE g    \* the stub is bound on the new object that
                           \* ensure_namespace returned and could not bind

RECURSIVE InjectFrom(_, _, _, _)
InjectFrom(global, tools, callers, i) ==
    IF i > Len(tools) THEN global
    ELSE \* g is bound to the global object after tool i, computed once
         CHOOSE r \in {InjectFrom(g, tools, callers, i + 1) :
                          g \in {InjectOne(global, tools[i], callers)}} : TRUE

\* inject_tools over the whole tool list, from a fresh global object
inject_tools(tools, callers) == InjectFrom(ContextGlobal, tools, callers, 1)

\* what the script finds at an access path: global.a or global.a.b
Lookup(global, path) ==
    LET parts == Split(path, ".")
    IN  IF Len(parts) = 1 THEN ObjGet(global, parts[1])
        ELSE LET ns == ObjGet(global, parts[1])
             IN  IF is_object(ns) THEN ObjGet(ns.props, parts[2]) ELSE Undefined

IsCallable(v) == v.kind = "fn"

(***************************************************************************)
(* Values crossing the bridge.                                             *)
(***************************************************************************)
\* tool.rs ToolCallError::Message(m), #[error("tool call failed: {0}")]:
\* err.to_string()
ToolCallErrorToString(m) == <<"tool call failed: ">> \o m

\* v8::Exception::error(message): an Error object
ErrorValue(msg) == [type |-> "Error", msg |-> msg]

\* a primitive string and a Symbol, thrown by a script
StringValue(msg) == [type |-> "string", msg |-> msg]

SymbolValue == [type |-> "symbol", msg |-> <<>>]

\* the engine value of a JSON value
Json(value) == [type |-> "json", val |-> value]

\* v8::Value::to_string: None when the conversion throws (a Symbol)
CanToString(v) == v.type # "symbol"

ToStringJS(v) ==
    IF v.type \in {"Error", "TypeError"} THEN <<v.type, ": ">> \o v.msg ELSE v.msg

\* json_to_v8: serde_json::to_string, then the engine's JSON.parse; None when
\* the engine cannot parse the text (a tree nested too deep for its parser)
JsonToV8Fails(value) == value = "deep"

json_to_v8(value) == IF JsonToV8Fails(value) THEN NoVal ELSE Json(value)

\* tool_callback lines 375-379: JSON.stringify of argument 0, then
\* serde_json::from_str(..).unwrap_or(Value::Null)
parsed_args(arg) == IF arg = "undefined" THEN "null" ELSE arg

\* a text longer than the longest string the engine can hold
TooLong == <<"(a text longer than the longest string of the engine)">>

\* v8::String::new: None for a text the engine cannot hold
v8_string_new(text) ==
    IF \E i \in 1..Len(text) : <<text[i]>> = TooLong
    THEN [some |-> FALSE, val |-> <<>>]
    ELSE [some |-> TRUE, val |-> text]

\* resolve_value lines 261-266: the message of the Tool error
RejectionMessage(v) ==
    IF CanToString(v) THEN ToStringJS(v) ELSE <<"promise rejected">>

(***************************************************************************)
(* State.                                                                  *)
(***************************************************************************)
VARIABLES
    budget,       \* stub invocations the script of an execution makes at most
    execs,        \* the executions of the run (Sandbox::execute calls)
    tools,        \* the tool list handed to execute
    callers,      \* the caller table handed to execute
    history,      \* the calls made on the client, with what each returned
    cache,        \* ToolInterfaceCache.entries of the client's generator
    v8,           \* the process: the state of the Once of init_v8, and
                  \* the times its platform bootstrap has been started
    pc,           \* per execution: where the engine thread is
    global,       \* per execution: the global object of the context
    next_id,      \* AsyncSharedState.next_id
    pending,      \* AsyncSharedState.pending
    resolvers,    \* AsyncSharedState.resolvers: id -> promise
    promises,     \* promise -> [state, value, settles]
    settled,      \* promises in the order resolve/reject was invoked on them
    chan,         \* the completion channel, in send order
    rx_alive,     \* the Receiver has not been dropped
    tasks,        \* executor tasks: id -> task
    sync_calls,   \* provider calls made in place by sync stubs
    script,       \* the script and its top-level promise
    called,       \* the access paths the script has called, in order
    returned,     \* the promises the stubs have returned to the script
    clock,        \* ticks since execute was called and, once
                  \* resolve_value has begun, since its `start`
    waited,       \* ticks the current recv_timeout has waited
    outcome       \* what execute returned

vars == <<execs, budget, tools, callers, history, cache, v8, pc, global, next_id, pending,
          resolvers, promises, settled, chan, rx_alive, tasks, sync_calls,
          script, called, returned, clock, waited, outcome>>

worldVars == <<execs, budget, tools, callers, history, cache>>

\* the clock stops one tick past the deadline plus one poll interval
MaxClock == TimeoutTicks + PollTicks + 1

NoOutcome == [kind |-> "none", msg |-> <<>>, val |-> NoVal]

Ok(val) == [kind |-> "ok", msg |-> <<>>, val |-> val]

\* SandboxError::V8, ::Tool, ::Serialization
SandboxError(kind, msg) == [kind |-> kind, msg |-> msg, val |-> NoVal]

NewScript ==
    [phase    |-> "new",     \* new, running, spinning, awaiting, fulfilled,
                             \* rejected
     awaiting |-> {},        \* the promises of the current await
     awaited  |-> {},        \* the promises of the awaits that completed
     seen     |-> <<>>,      \* promise -> value the script got from an await
     last     |-> NoVal,     \* what the script got last from a sync stub
                             \* (a value) or from a catch clause (an error)
     result   |-> NoVal]     \* the value the top-level promise settled with

\* the async function has ended: its top-level promise is settled with
\* result, and its locals are gone
Ended(phase, result) == [NewScript EXCEPT !.phase = phase, !.result = result]

\* the state of one execution before execute is called
InitExec(E) ==
    /\ execs = E
    /\ history = <<>>
    /\ cache = <<>>
    /\ v8 = [INIT |-> "incomplete", platforms |-> 0]
    /\ pc = [e \in E |-> "idle"]
    /\ global = [e \in E |-> EmptyProps]
    /\ next_id = [e \in E |-> 1]
    /\ pending = [e \in E |-> 0]
    /\ resolvers = [e \in E |-> <<>>]
    /\ promises = [e \in E |-> <<>>]
    /\ settled = [e \in E |-> <<>>]
    /\ chan = [e \in E |-> <<>>]
    /\ rx_alive = [e \in E |-> FALSE]
    /\ tasks = [e \in E |-> <<>>]
    /\ sync_calls = [e \in E |-> {}]
    /\ script = [e \in E |-> NewScript]
    /\ called = [e \in E |-> <<>>]
    /\ returned = [e \in E |-> {}]
    /\ clock = [e \in E |-> 0]
    /\ waited = [e \in E |-> 0]
    /\ outcome = [e \in E |-> NoOutcome]

(***************************************************************************)
(* Promises and the shared bridge state.                                   *)
(***************************************************************************)
NewPromise == [state |-> "pending", value |-> NoVal, settles |-> 0]

\* a resolver whose resolve or reject does nothing
settlePromiseBug(ps, p, state, value) == ps

\* PromiseResolver::resolve / ::reject: a settled promise keeps its state
SettlePromise(ps, p, state, value) ==
    [ps EXCEPT ![p] = [state   |-> IF @.state = "pending" THEN state ELSE @.state,
                       value   |-> IF @.state = "pending" THEN value ELSE @.value,
                       settles |-> @.settles + 1]]

removeBug(f, k) == f

Remove(f, k) == [x \in DOMAIN f \ {k} |-> f[x]]

saturatingSubBug(n, k) == n

saturating_sub(n, k) == IF n >= k THEN n - k ELSE 0

\* Completion { id, result }
Completion(id, result) == [id |-> id, result |-> result]

\* the bridge state of one execution, as apply_completion reads and writes it
Bridge(e) ==
    [resolvers |-> resolvers[e], pending |-> pending[e],
     promises |-> promises[e], settled |-> settled[e], err |-> NoOutcome]

\* the promise state and value apply_completion settles the resolver with;
\* state "none" when it returns at line 328 before it settles it
completionSettlesBug(result) ==
    [state |-> "fulfilled", value |-> Json(result.val)]

CompletionSettles(result) ==
    IF result.ok
    THEN IF JsonToV8Fails(result.val)
         THEN [state |-> "rejected",
               value |-> ErrorValue(<<"failed to serialize tool result">>)]
         ELSE [state |-> "fulfilled", value |-> json_to_v8(result.val)]
    ELSE LET message == v8_string_new(result.msg)
         IN  IF message.some
             THEN [state |-> "rejected", value |-> ErrorValue(message.val)]
             ELSE [state |-> "none", value |-> NoVal]

applyCompletionBug(b, completion) == b

\* an application that counts the completion before it looks for the resolver
applyUncheckedBug(b, completion) ==
    [b EXCEPT !.resolvers = Remove(b.resolvers, completion.id),
              !.pending = saturating_sub(b.pending, 1)]

apply_completion(b, completion) ==
    IF completion.id \notin DOMAIN b.resolvers THEN b
    ELSE LET resolver == b.resolvers[completion.id]
             how == CompletionSettles(completion.result)
             b1 == [b EXCEPT !.resolvers = Remove(b.resolvers, completion.id),
                             !.pending = saturating_sub(b.pending, 1)]
         IN  IF how.state = "none"
             THEN [b1 EXCEPT !.err = SandboxError("v8", <<"error string">>)]
             ELSE [b1 EXCEPT
                      !.promises = SettlePromise(b.promises, resolver,
                                                 how.state, how.value),
                      !.settled = Append(b.settled, resolver)]

SetBridge(e, b) ==
    /\ resolvers' = [resolvers EXCEPT ![e] = b.resolvers]
    /\ pending' = [pending EXCEPT ![e] = b.pending]
    /\ promises' = [promises EXCEPT ![e] = b.promises]
    /\ settled' = [settled EXCEPT ![e] = b.settled]

bridgeVars == <<next_id, pending, resolvers, promises, settled>>

(***************************************************************************)
(* Sandbox::execute up to run_script.                                      *)
(***************************************************************************)
\* Once::call_once: the caller runs the closure, blocks while another thread
\* runs it, or returns at once
callOnceBug(once) == IF once = "complete" THEN "return" ELSE "run"

call_once(once) ==
    CASE once = "incomplete" -> "run"
      [] once = "running" -> "wait"
      [] OTHER -> "return"

\* init_v8 of the first caller: INIT.call_once runs the platform bootstrap
init_v8(e) ==
    /\ pc[e] = "idle"
    /\ call_once(v8.INIT) = "run"
    /\ v8' = [INIT |-> "running", platforms |-> v8.platforms + 1]
    /\ pc' = [pc EXCEPT ![e] = "init_v8"]
    /\ UNCHANGED <<worldVars, global, bridgeVars, chan, rx_alive, tasks,
                   sync_calls, script, called, returned, clock, waited, outcome>>

\* the bootstrap closure returns: the Once is complete, call_once returns
Initialized(e) ==
    /\ pc[e] = "init_v8"
    /\ v8' = [v8 EXCEPT !.INIT = "complete"]
    /\ pc' = [pc EXCEPT ![e] = "idle"]
    /\ UNCHANGED <<worldVars, global, bridgeVars, chan, rx_alive, tasks,
                   sync_calls, script, called, returned, clock, waited, outcome>>

\* execute lines 77-111: init_v8 on a complete Once, the isolate, the
\* channel, the state, inject_tools, and the compilation of the wrapped script
Execute(e, compiles) ==
    /\ pc[e] = "idle"
    /\ call_once(v8.INIT) = "return"
    /\ UNCHANGED v8
    /\ cache' = Interfaces(cache, tools)
    /\ global' = [global EXCEPT ![e] = inject_tools(tools, callers)]
    /\ IF compiles
       THEN /\ pc' = [pc EXCEPT ![e] = "run_script"]
            /\ script' = [script EXCEPT ![e].phase = "running"]
            /\ rx_alive' = [rx_alive EXCEPT ![e] = TRUE]
            /\ UNCHANGED outcome
       ELSE /\ pc' = [pc EXCEPT ![e] = "done"]
            /\ outcome' = [outcome EXCEPT ![e] = SandboxError("v8", <<"script compile">>)]
            /\ UNCHANGED <<script, rx_alive>>
    /\ UNCHANGED <<execs, budget, tools, callers, history, bridgeVars, chan,
                   tasks, sync_calls, called, returned, clock, waited>>

(***************************************************************************)
(* Providers.  A provider's answer to a call is an input of the model.     *)
(***************************************************************************)
ResOk(val) == [ok |-> TRUE, val |-> val, msg |-> <<>>]

ResErr(msg) == [ok |-> FALSE, val |-> "none", msg |-> msg]

\* the text of the ToolCallError a failing provider returns
Boom == <<"boom">>

\* what a provider may return for args: the args echoed, a value the engine
\* cannot parse back, or an error; the provider "pl" may fail with a text
\* that the engine cannot hold in one string
ProviderResults(provider, args) ==
    IF provider = "pl" THEN {ResOk(args), ResErr(Boom), ResErr(TooLong)}
    ELSE {ResOk(args), ResOk("deep"), ResErr(Boom)}

\* the text of the ToolCallError a failing sync provider returns
Bang == <<"bang">>

SyncProviderResults(args) == {ResOk(args), ResOk("deep"), ResErr(Bang)}

\* the argument object of the script's n-th stub invocation (the bridge
\* passes it through and never branches on it)
ArgOf(n) == IF n = 1 THEN "m1" ELSE IF n = 2 THEN "m2" ELSE "undefined"

(***************************************************************************)
(* tool_callback: the native stub.                                         *)
(***************************************************************************)
Throw(msg) == [kind |-> "throw", val |-> ErrorValue(msg)]

\* the name a stub hands to its provider
dispatchNameBug(st) == st.tool_name

DispatchName(st) == st.raw_name

\* a task that carries the id the next call will get
taskBug(id, st, args) ==
    [id |-> id + 1, st |-> "spawned", provider |-> st.async_caller,
     name |-> st.raw_name, args |-> args, tool |-> st.tool_name,
     ncalls |-> 0, res |-> NoRes]

Task(id, st, args) ==
    [id |-> id, st |-> "spawned", provider |-> st.async_caller,
     name |-> DispatchName(st), args |-> args, tool |-> st.tool_name,
     ncalls |-> 0, res |-> NoRes]

\* state.runtime.spawn(..)
spawnBug(ts, task) == ts \o <<task, task>>

Spawn(ts, task) == Append(ts, task)

\* the part of an execution's state that tool_callback reads and writes
StubState(e) ==
    [next_id |-> next_id[e], pending |-> pending[e], resolvers |-> resolvers[e],
     promises |-> promises[e], tasks |-> tasks[e], sync_calls |-> sync_calls[e],
     ret |-> Undefined]

\* lines 382-418
AsyncStub(s, st, arg, resolverOk) ==
    IF ~resolverOk
    THEN [s EXCEPT !.ret = Throw(<<"failed to create promise resolver">>)]
    ELSE LET id == s.next_id
             s1 == [s EXCEPT !.next_id = id + 1,
                             !.promises = (id :> NewPromise) @@ @,
                             !.resolvers = (id :> id) @@ @,
                             !.pending = @ + 1]
         IN  IF st.async_caller = NoCaller
             THEN [s1 EXCEPT !.ret = Throw(<<"async caller missing">>)]
             ELSE [s1 EXCEPT !.tasks = Spawn(@, Task(id, st, parsed_args(arg))),
                             !.ret = [kind |-> "promise", val |-> id]]

\* lines 419-440
SyncStub(s, st, arg, res) ==
    IF st.sync_caller = NoCaller
    THEN [s EXCEPT !.ret = Throw(<<"sync caller missing">>)]
    ELSE LET s1 == [s EXCEPT !.sync_calls = @ \cup
                        {[provider |-> st.sync_caller, name |-> DispatchName(st),
                          args |-> parsed_args(arg), tool |-> st.tool_name]}]
         IN  IF res.ok
             THEN IF JsonToV8Fails(res.val)
                  THEN [s1 EXCEPT !.ret = Throw(<<"failed to serialize tool result">>)]
                  ELSE [s1 EXCEPT !.ret = [kind |-> "value", val |-> json_to_v8(res.val)]]
             ELSE [s1 EXCEPT !.ret = Throw(ToolCallErrorToString(res.msg))]

toolCallbackBug(s, st, arg, resolverOk, res) ==
    AsyncStub(s, st, arg, resolverOk)

tool_callback(s, st, arg, resolverOk, res) ==
    IF st.is_async THEN AsyncStub(s, st, arg, resolverOk)
    ELSE SyncStub(s, st, arg, res)

\* what a call expression at an access path does: the stub bound there
\* runs, or the call throws a TypeError when no function is bound there
CallAt(e, path, arg, resolverOk, res) ==
    LET f == Lookup(global[e], path)
    IN  IF IsCallable(f)
        THEN tool_callback(StubState(e), f.st, arg, resolverOk, res)
        ELSE [StubState(e) EXCEPT !.ret =
                  [kind |-> "throw",
                   val |-> [type |-> "TypeError", msg |-> <<"is not a function">>]]]

\* the access paths a script calls
CallPaths == {tool_access_path(tools[i].name) : i \in 1..Len(tools)}

ScriptOnEngine(e) ==
    /\ pc[e] \in {"run_script", "checkpoint"}
    /\ script[e].phase = "running"

\* the script calls a stub; an exception is caught by the script or rejects
\* the top-level promise
ScriptCall(e, path, resolverOk, res, catches) ==
    /\ ScriptOnEngine(e)
    /\ Len(called[e]) < budget
    /\ LET s == CallAt(e, path, ArgOf(Len(called[e]) + 1), resolverOk, res)
       IN  /\ next_id' = [next_id EXCEPT ![e] = s.next_id]
           /\ pending' = [pending EXCEPT ![e] = s.pending]
           /\ resolvers' = [resolvers EXCEPT ![e] = s.resolvers]
           /\ promises' = [promises EXCEPT ![e] = s.promises]
           /\ tasks' = [tasks EXCEPT ![e] = s.tasks]
           /\ sync_calls' = [sync_calls EXCEPT ![e] = s.sync_calls]
           /\ script' = [script EXCEPT ![e] =
                  CASE s.ret.kind = "promise" -> @
                    [] s.ret.kind = "value" -> [@ EXCEPT !.last = s.ret.val]
                    [] OTHER ->
                         IF catches THEN [@ EXCEPT !.last = s.ret.val]
                         ELSE Ended("rejected", s.ret.val)]
           /\ returned' = [returned EXCEPT ![e] =
                  IF s.ret.kind = "promise" THEN @ \cup {s.ret.val} ELSE @]
    /\ called' = [called EXCEPT ![e] = Append(@, path)]
    /\ UNCHANGED <<worldVars, v8, pc, global, settled, chan, rx_alive,
                   clock, waited, outcome>>

(***************************************************************************)
(* The script: an async function body that calls stubs, awaits the         *)
(* promises they returned, and returns or throws.                          *)
(***************************************************************************)
\* `await Promise.all([..])` of promises the script holds; with no promise,
\* an await of a promise nothing ever settles
ScriptAwait(e, S) ==
    /\ ScriptOnEngine(e)
    /\ S \subseteq returned[e] \ script[e].awaited
    /\ script' = [script EXCEPT ![e].phase = "awaiting", ![e].awaiting = S]
    /\ UNCHANGED <<worldVars, v8, pc, global, bridgeVars, chan, rx_alive,
                   tasks, sync_calls, called, returned, clock, waited, outcome>>

\* what the script returns: an object of what it observed (the values of
\* the promises it awaited, the last sync result or caught error), nothing,
\* or an object that refers to itself, on which JSON.stringify throws
ReturnKinds == {"observed", "undefined", "cyclic"}

Observed(sc) ==
    [type |-> "object", seen |-> sc.seen, last |-> sc.last]

ScriptReturn(e, kind) ==
    /\ ScriptOnEngine(e)
    /\ script' = [script EXCEPT ![e] =
                     Ended("fulfilled", IF kind = "observed" THEN Observed(@)
                                        ELSE [type |-> kind])]
    /\ UNCHANGED <<worldVars, v8, pc, global, bridgeVars, chan, rx_alive,
                   tasks, sync_calls, called, returned, clock, waited, outcome>>

\* the values a script throws by itself
Thrown == {StringValue(<<"oops">>), SymbolValue}

ScriptThrow(e, v) ==
    /\ ScriptOnEngine(e)
    /\ script' = [script EXCEPT ![e] = Ended("rejected", v)]
    /\ UNCHANGED <<worldVars, v8, pc, global, bridgeVars, chan, rx_alive,
                   tasks, sync_calls, called, returned, clock, waited, outcome>>

\* the script enters a loop that never ends (`while (true) {}`): it never
\* yields to the driver again
ScriptSpin(e) ==
    /\ ScriptOnEngine(e)
    /\ script' = [script EXCEPT ![e] = Ended("spinning", NoVal)]
    /\ UNCHANGED <<worldVars, v8, pc, global, bridgeVars, chan, rx_alive,
                   tasks, sync_calls, called, returned, clock, waited, outcome>>

\* a tick passes while the script spins on the engine thread
SpinTick(e) ==
    /\ pc[e] \in {"run_script", "checkpoint"}
    /\ script[e].phase = "spinning"
    /\ clock[e] < MaxClock
    /\ clock' = [clock EXCEPT ![e] = @ + 1]
    /\ UNCHANGED <<worldVars, v8, pc, global, bridgeVars, chan, rx_alive,
                   tasks, sync_calls, script, called, returned, waited, outcome>>

\* the awaited promises let the continuation run: all fulfilled, or one rejected
Ready(e) ==
    LET S == script[e].awaiting
    IN  /\ script[e].phase = "awaiting"
        /\ S # {}
        /\ \/ \A p \in S : promises[e][p].state = "fulfilled"
           \/ \E p \in S : promises[e][p].state = "rejected"

\* Promise.all rejects with the rejection that happened first
FirstRejected(e) ==
    LET S == script[e].awaiting
        idx == {i \in 1..Len(settled[e]) :
                   /\ settled[e][i] \in S
                   /\ promises[e][settled[e][i]].state = "rejected"}
        first == CHOOSE i \in idx : \A j \in idx : i <= j
    IN  settled[e][first]

\* a microtask: the continuation of the await runs; a rejection is caught
\* when the await sits in a try block, and rejects the top-level promise
\* otherwise
Resume(e, catches) ==
    /\ pc[e] = "checkpoint"
    /\ Ready(e)
    /\ LET S == script[e].awaiting
       IN  script' = [script EXCEPT ![e] =
              IF \A p \in S : promises[e][p].state = "fulfilled"
              THEN [@ EXCEPT !.phase = "running", !.awaiting = {},
                             !.awaited = @ \cup S,
                             !.seen = [p \in S |-> promises[e][p].value] @@ @]
              ELSE IF catches
                   THEN [@ EXCEPT !.phase = "running", !.awaiting = {},
                                  !.awaited = @ \cup S,
                                  !.last = promises[e][FirstRejected(e)].value]
                   ELSE Ended("rejected", promises[e][FirstRejected(e)].value)]
    /\ UNCHANGED <<worldVars, v8, pc, global, bridgeVars, chan, rx_alive,
                   tasks, sync_calls, called, returned, clock, waited, outcome>>

(***************************************************************************)
(* resolve_value: the driver loop.                                         *)
(***************************************************************************)
\* script.run has returned the promise of the async wrapper: resolve_value
\* begins (the value is a promise) and takes `start`
RunScriptEnd(e) ==
    /\ pc[e] = "run_script"
    /\ script[e].phase \in {"awaiting", "fulfilled", "rejected"}
    /\ pc' = [pc EXCEPT ![e] = "drain"]
    /\ clock' = [clock EXCEPT ![e] = 0]
    /\ UNCHANGED <<worldVars, v8, global, bridgeVars, chan, rx_alive,
                   tasks, sync_calls, script, called, returned, waited, outcome>>

\* drain_completions: rx.try_recv() returned a completion; an Err of
\* apply_completion is what resolve_value and execute return
DrainRecv(e) ==
    /\ pc[e] = "drain"
    /\ chan[e] # <<>>
    /\ LET b == apply_completion(Bridge(e), Head(chan[e]))
       IN  /\ SetBridge(e, b)
           /\ IF b.err = NoOutcome
              THEN UNCHANGED <<pc, outcome, rx_alive>>
              ELSE /\ pc' = [pc EXCEPT ![e] = "done"]
                   /\ outcome' = [outcome EXCEPT ![e] = b.err]
                   /\ rx_alive' = [rx_alive EXCEPT ![e] = FALSE]
    /\ chan' = [chan EXCEPT ![e] = Tail(@)]
    /\ UNCHANGED <<worldVars, v8, global, next_id, tasks,
                   sync_calls, script, called, returned, clock, waited>>

\* drain_completions: rx.try_recv() returned Empty; the microtask checkpoint
\* begins
DrainEmpty(e) ==
    /\ pc[e] = "drain"
    /\ chan[e] = <<>>
    /\ pc' = [pc EXCEPT ![e] = "checkpoint"]
    /\ UNCHANGED <<worldVars, v8, global, bridgeVars, chan, rx_alive,
                   tasks, sync_calls, script, called, returned, clock, waited, outcome>>

\* v8_value_to_json of the fulfilled result (execute line 113)
v8_value_to_json(value) ==
    IF value.type = "undefined" THEN Ok(Json("null"))
    ELSE IF value.type = "cyclic"
         THEN SandboxError("serialization", <<"result stringify">>)
         ELSE Ok(value)

\* start.elapsed() > Duration::from_millis(timeout_ms)
TimedOut(elapsed) == elapsed > TimeoutTicks

\* lines 259-273 on a promise in the given state: what resolve_value
\* returns, or NoOutcome when the loop goes on to the blocking wait
inspectBug(sc, elapsed) ==
    IF sc.phase \in {"fulfilled", "rejected"} THEN v8_value_to_json(sc.result)
    ELSE IF TimedOut(elapsed)
         THEN SandboxError("v8", <<"execution timeout">>)
         ELSE NoOutcome

\* an inspection that looks at the deadline first
inspectDeadlineFirstBug(sc, elapsed) ==
    IF TimedOut(elapsed) THEN SandboxError("v8", <<"execution timeout">>)
    ELSE IF sc.phase = "rejected"
         THEN SandboxError("tool", RejectionMessage(sc.result))
         ELSE IF sc.phase = "fulfilled" THEN v8_value_to_json(sc.result)
         ELSE NoOutcome

InspectPromise(sc, elapsed) ==
    IF sc.phase = "rejected"
    THEN SandboxError("tool", RejectionMessage(sc.result))
    ELSE IF sc.phase = "fulfilled" THEN v8_value_to_json(sc.result)
    ELSE IF TimedOut(elapsed)
         THEN SandboxError("v8", <<"execution timeout">>)
         ELSE NoOutcome

\* the checkpoint has run every microtask; lines 259-273
Inspect(e) ==
    /\ pc[e] = "checkpoint"
    /\ script[e].phase \in {"awaiting", "fulfilled", "rejected"}
    /\ ~Ready(e)
    /\ LET r == InspectPromise(script[e], clock[e])
       IN  IF r = NoOutcome
           THEN /\ pc' = [pc EXCEPT ![e] = "poll"]
                /\ waited' = [waited EXCEPT ![e] = 0]
                /\ UNCHANGED <<outcome, rx_alive>>
           ELSE /\ pc' = [pc EXCEPT ![e] = "done"]
                /\ outcome' = [outcome EXCEPT ![e] = r]
                /\ rx_alive' = [rx_alive EXCEPT ![e] = FALSE]
                /\ UNCHANGED waited
    /\ UNCHANGED <<worldVars, v8, global, bridgeVars, chan, tasks,
                   sync_calls, script, called, returned, clock>>

\* the Sender endpoints counted without the one the shared state holds
sendersBug(e) ==
    Cardinality({i \in 1..Len(tasks[e]) : tasks[e][i].st # "finished"})

\* the Sender endpoints alive: the one in the shared state, and one clone in
\* every task that has not finished
Senders(e) ==
    (IF pc[e] \in {"idle", "init_v8", "done"} THEN 0 ELSE 1)
    + Cardinality({i \in 1..Len(tasks[e]) : tasks[e][i].st # "finished"})

\* rx.recv_timeout(5 ms): what it returns, "wait" while it blocks
recv_timeout(ch, senders, w) ==
    IF ch # <<>> THEN "ok"
    ELSE IF senders = 0 THEN "disconnected"
    ELSE IF w >= PollTicks THEN "timeout"
    ELSE "wait"

\* lines 275-281 once recv_timeout has returned
Poll(e) ==
    /\ pc[e] = "poll"
    /\ LET r == recv_timeout(chan[e], Senders(e), waited[e])
       IN  /\ r # "wait"
           /\ LET b == IF r = "ok" THEN apply_completion(Bridge(e), Head(chan[e]))
                       ELSE Bridge(e)
                  out == IF r = "disconnected"
                         THEN SandboxError("v8", <<"execution incomplete">>)
                         ELSE b.err
              IN  /\ SetBridge(e, b)
                  /\ chan' = [chan EXCEPT ![e] = IF r = "ok" THEN Tail(@) ELSE @]
                  /\ IF out = NoOutcome
                     THEN /\ pc' = [pc EXCEPT ![e] = "drain"]
                          /\ UNCHANGED <<outcome, rx_alive>>
                     ELSE /\ pc' = [pc EXCEPT ![e] = "done"]
                          /\ outcome' = [outcome EXCEPT ![e] = out]
                          /\ rx_alive' = [rx_alive EXCEPT ![e] = FALSE]
    /\ UNCHANGED <<worldVars, v8, global, next_id, tasks, sync_calls,
                   script, called, returned, clock, waited>>

\* a tick passes while recv_timeout blocks
PollTick(e) ==
    /\ pc[e] = "poll"
    /\ recv_timeout(chan[e], Senders(e), waited[e]) = "wait"
    /\ clock' = [clock EXCEPT ![e] = @ + 1]
    /\ waited' = [waited EXCEPT ![e] = @ + 1]
    /\ UNCHANGED <<worldVars, v8, pc, global, bridgeVars, chan, rx_alive,
                   tasks, sync_calls, script, called, returned, outcome>>

(***************************************************************************)
(* Executor tasks (the async block of tool_callback, lines 409-416).       *)
(***************************************************************************)
\* the task runs: caller.call_tool_async(&tool_name, parsed_args) is called
\* and awaited
TaskCall(e, i) ==
    /\ i \in 1..Len(tasks[e])
    /\ tasks[e][i].st = "spawned"
    /\ tasks' = [tasks EXCEPT ![e][i].st = "called", ![e][i].ncalls = @ + 1]
    /\ UNCHANGED <<worldVars, v8, pc, global, bridgeVars, chan, rx_alive,
                   sync_calls, script, called, returned, clock, waited, outcome>>

\* result.map_err(|err| err.to_string())
MapErr(res) == IF res.ok THEN res ELSE ResErr(ToolCallErrorToString(res.msg))

sendBug(ch, alive, completion) == Append(ch, completion)

\* a send that queues the completion twice
sendTwiceBug(ch, alive, completion) ==
    IF alive THEN ch \o <<completion, completion>> ELSE ch

\* a channel that hands out the newest completion first
sendFirstBug(ch, alive, completion) == IF alive THEN <<completion>> \o ch ELSE ch

\* mpsc::Sender::send: queued while the Receiver lives, an Err otherwise
Send(ch, alive, completion) == IF alive THEN Append(ch, completion) ELSE ch

\* the channel a task of execution e sends on: the clone of the Sender that
\* execute created for e (lines 88 and 400)
channelOfBug(e) == 1

ChannelOf(e) == e

\* the provider's future completes with res (a provider that never
\* completes leaves the task here); the task sends the Completion and ends
\* (`let _ =` drops the result of send)
TaskSend(e, i, res) ==
    /\ i \in 1..Len(tasks[e])
    /\ tasks[e][i].st = "called"
    /\ res \in ProviderResults(tasks[e][i].provider, tasks[e][i].args)
    /\ chan' = [chan EXCEPT ![ChannelOf(e)] =
                   Send(@, rx_alive[ChannelOf(e)],
                        Completion(tasks[e][i].id, MapErr(res)))]
    /\ tasks' = [tasks EXCEPT ![e][i].st = "finished", ![e][i].res = res]
    /\ UNCHANGED <<worldVars, v8, pc, global, bridgeVars, rx_alive,
                   sync_calls, script, called, returned, clock, waited, outcome>>

(***************************************************************************)
(* Specifications.                                                         *)
(***************************************************************************)
\* registered names
NameAsync == <<"t", ".", "1", "-">>

NameSync == <<"m", ".", "s">>

NameNoAsync == <<"e">>

NameNoSync == <<"c">>

\* a client after register_async_source(pa, "t") with a tool "1-" and
\* register_sync_source(ps, "m") with a tool "s"; the tool list also names
\* an async and a sync tool that the caller table does not hold
BridgeTools ==
    <<Tool(NameAsync, TRUE), Tool(NameSync, FALSE),
      Tool(NameNoAsync, TRUE), Tool(NameNoSync, FALSE)>>

BridgeCallers ==
    (NameAsync :> ToolCallerEntry(Tool(NameAsync, TRUE), <<"1", "-">>, "Async", "pa"))
    @@ (NameSync :> ToolCallerEntry(Tool(NameSync, FALSE), <<"s">>, "Sync", "ps"))

Init ==
    /\ InitExec({1})
    /\ budget = MaxCalls
    /\ tools = BridgeTools
    /\ callers = BridgeCallers

EngineStep(e) ==
    \/ init_v8(e)
    \/ Initialized(e)
    \/ \E compiles \in BOOLEAN : Execute(e, compiles)
    \/ \E path \in CallPaths, resolverOk \in BOOLEAN, catches \in BOOLEAN :
          \E res \in SyncProviderResults(parsed_args(ArgOf(Len(called[e]) + 1))) :
              ScriptCall(e, path, resolverOk, res, catches)
    \/ \E S \in SUBSET returned[e] : ScriptAwait(e, S)
    \/ \E kind \in ReturnKinds : ScriptReturn(e, kind)
    \/ \E v \in Thrown : ScriptThrow(e, v)
    \/ ScriptSpin(e)
    \/ SpinTick(e)
    \/ RunScriptEnd(e)
    \/ DrainRecv(e)
    \/ DrainEmpty(e)
    \/ \E catches \in BOOLEAN : Resume(e, catches)
    \/ Inspect(e)
    \/ Poll(e)
    \/ PollTick(e)

ExecutorStep(e) ==
    \/ \E i \in 1..Len(tasks[e]) : TaskCall(e, i)
    \/ \E i \in 1..Len(tasks[e]) :
          \E res \in ProviderResults(tasks[e][i].provider, tasks[e][i].args) : TaskSend(e, i, res)

Next == \E e \in execs : EngineStep(e) \/ ExecutorStep(e)

Spec == Init /\ [][Next]_vars

\* the engine thread keeps running, the executor runs every spawned task,
\* and every provider call completes
Fairness ==
    \A e \in {1} : WF_vars(EngineStep(e)) /\ WF_vars(ExecutorStep(e))

\* one execution whose script makes one call
InitFair ==
    /\ InitExec({1})
    /\ budget = 1
    /\ tools = BridgeTools
    /\ callers = BridgeCallers

FairSpec == InitFair /\ [][Next]_vars /\ Fairness

\* two executions of one sandbox at a time, each script making one call
InitConc ==
    /\ InitExec({1, 2})
    /\ budget = 1
    /\ tools = <<Tool(NameAsync, TRUE)>>
    /\ callers = BridgeCallers

SpecConc == InitConc /\ [][Next]_vars

\* registered names that share a namespace or an access path, and one whose
\* namespace is a built-in property of the global object that is no object
InstallNames ==
    {<<"a">>, <<"a", ".", "b">>, <<"a", "_", "b">>, <<"a", "-", "b">>,
     <<"a", ".", "b", ".", "c">>, <<"a", ".", "b", "_", "c">>,
     <<"N", "a", "N", ".", "x">>}

\* the tool lists get_tools may hand to execute: the names of a caller
\* table, in any order
MaxTools == 2

Range(f) == {f[x] : x \in DOMAIN f}

InstallLists ==
    {names \in UNION {[1..n -> InstallNames] : n \in 1..MaxTools} :
        \A i, j \in DOMAIN names : i # j => names[i] # names[j]}

\* a client after register_async_tool or register_sync_tool of every name,
\* each with a provider of its own, and a script that makes one call
InitInstall ==
    /\ InitExec({1})
    /\ budget = 1
    /\ \E names \in InstallLists, is_async \in BOOLEAN :
          /\ tools = [i \in DOMAIN names |-> Tool(names[i], is_async)]
          /\ callers = [n \in Range(names) |->
                           ToolCallerEntry(Tool(n, is_async), n,
                                           IF is_async THEN "Async" ELSE "Sync",
                                           <<"provider of ">> \o n)]

SpecInstall == InitInstall /\ [][Next]_vars

(***************************************************************************)
(* The client: its caller table and the calls that fill it.                *)
(***************************************************************************)
MaxOps == 2

\* HashMap::insert: the entry under key is added or replaced
hashMapInsertBug(m, key, value) ==
    [k \in DOMAIN m \cup {key} |-> IF k \in DOMAIN m THEN m[k] ELSE value]

HashMapInsert(m, key, value) ==
    [k \in DOMAIN m \cup {key} |-> IF k = key THEN value ELSE m[k]]

\* client.rs get_tool: the descriptor of the entry under name, if any
NoTool == [name |-> <<>>]

get_tool(table, name) ==
    IF name \in DOMAIN table THEN table[name].tool ELSE NoTool

\* the table after register_async_tool(tool, raw_name, caller)
RegisterAsyncTool(table, tool, raw_name, caller) ==
    HashMapInsert(table, tool.name,
                  ToolCallerEntry([tool EXCEPT !.is_async = TRUE], raw_name,
                                  "Async", caller))

\* a registration that keeps the is_async of the submitted descriptor
registerSyncToolBug(table, tool, raw_name, caller) ==
    HashMapInsert(table, tool.name, ToolCallerEntry(tool, raw_name, "Sync", caller))

\* the table after register_sync_tool(tool, raw_name, caller)
RegisterSyncTool(table, tool, raw_name, caller) ==
    HashMapInsert(table, tool.name,
                  ToolCallerEntry([tool EXCEPT !.is_async = FALSE], raw_name,
                                  "Sync", caller))

Call(op, tool, raw_name, caller, ret) ==
    [op |-> op, tool |-> tool, raw_name |-> raw_name, caller |-> caller,
     ret |-> ret]

sandboxVars == <<execs, budget, tools, v8, pc, global, next_id, pending,
                 resolvers, promises, settled, chan, rx_alive, tasks,
                 sync_calls, script, called, returned, clock, waited, outcome>>

register_async_tool(tool, raw_name, caller) ==
    /\ Len(history) < MaxOps
    /\ callers' = RegisterAsyncTool(callers, tool, raw_name, caller)
    /\ history' = Append(history,
                         Call("register_async_tool", tool, raw_name, caller, "()"))
    /\ UNCHANGED <<cache, sandboxVars>>

register_sync_tool(tool, raw_name, caller) ==
    /\ Len(history) < MaxOps
    /\ callers' = RegisterSyncTool(callers, tool, raw_name, caller)
    /\ history' = Append(history,
                         Call("register_sync_tool", tool, raw_name, caller, "()"))
    /\ UNCHANGED <<cache, sandboxVars>>

\* register_async_tool for every listed tool, in list order (lines 84-88)
RECURSIVE RegisterAsyncAll(_, _, _, _)
RegisterAsyncAll(table, listed, prefix, source) ==
    IF listed = <<>> THEN table
    ELSE LET tool == Head(listed)
             raw_name == tool.name
             renamed == [tool EXCEPT !.name = apply_prefix(prefix, tool.name)]
         IN  RegisterAsyncAll(RegisterAsyncTool(table, renamed, raw_name, source),
                              Tail(listed), prefix, source)

\* register_sync_tool for every listed tool, in list order (lines 120-124)
RECURSIVE RegisterSyncAll(_, _, _, _)
RegisterSyncAll(table, listed, prefix, source) ==
    IF listed = <<>> THEN table
    ELSE LET tool == Head(listed)
             raw_name == tool.name
             renamed == [tool EXCEPT !.name = apply_prefix(prefix, tool.name)]
         IN  RegisterSyncAll(RegisterSyncTool(table, renamed, raw_name, source),
                             Tail(listed), prefix, source)

\* a call on a source: its listing is what list_tools returned
SourceCall(op, source, prefix, listing, ret) ==
    [op |-> op, source |-> source, prefix |-> prefix, listing |-> listing,
     ret |-> ret]

\* a source registration that empties the table when list_tools fails
registerAsyncSourceBug(source, prefix, listing) ==
    /\ Len(history) < MaxOps
    /\ callers' = IF listing.ok
                  THEN RegisterAsyncAll(callers, listing.val, prefix, source)
                  ELSE <<>>
    /\ history' = Append(history,
                         SourceCall("register_async_source", source, prefix,
                                    listing,
                                    IF listing.ok THEN "Ok(())" ELSE listing.msg))
    /\ UNCHANGED <<cache, sandboxVars>>

register_async_source(source, prefix, listing) ==
    /\ Len(history) < MaxOps
    /\ IF listing.ok
       THEN /\ callers' = RegisterAsyncAll(callers, listing.val, prefix, source)
            /\ history' = Append(history,
                                 SourceCall("register_async_source", source,
                                            prefix, listing, "Ok(())"))
       ELSE /\ callers' = callers
            /\ history' = Append(history,
                                 SourceCall("register_async_source", source,
                                            prefix, listing, listing.msg))
    /\ UNCHANGED <<cache, sandboxVars>>

register_sync_source(source, prefix, listing) ==
    /\ Len(history) < MaxOps
    /\ IF listing.ok
       THEN /\ callers' = RegisterSyncAll(callers, listing.val, prefix, source)
            /\ history' = Append(history,
                                 SourceCall("register_sync_source", source,
                                            prefix, listing, "Ok(())"))
       ELSE /\ callers' = callers
            /\ history' = Append(history,
                                 SourceCall("register_sync_source", source,
                                            prefix, listing, listing.msg))
    /\ UNCHANGED <<cache, sandboxVars>>

\* a call of the client's tool_to_typescript_interface, and the text it
\* returned
tool_to_typescript_interface(tool) ==
    /\ Len(history) < MaxOps
    /\ LET r == Interface(cache, tool)
       IN  /\ cache' = r.entries
           /\ history' = Append(history,
                                [op |-> "tool_to_typescript_interface",
                                 tool |-> tool, ret |-> r.text])
    /\ UNCHANGED <<callers, sandboxVars>>

\* the providers of the client, and what list_tools of each may return
Sources == {"pa", "pb"}

Listed(source) ==
    IF source = "pa"
    THEN <<Descriptor(<<"x">>, FALSE, SchemaA), Descriptor(<<"y">>, TRUE, SchemaB)>>
    ELSE <<Descriptor(<<"x">>, TRUE, SchemaB)>>

Listings(source) == {ResOk(Listed(source)), ResErr(Boom)}

Prefixes == {<<"p">>, <<"q">>}

\* the descriptors handed to register_async_tool and register_sync_tool, with
\* the raw name and the provider of each registration
ClientNames == {<<"a">>, <<"p", ".", "x">>}

ClientDescriptors ==
    {Descriptor(name, is_async, inputs) :
        name \in ClientNames, is_async \in BOOLEAN, inputs \in {SchemaA, SchemaB}}

Registrations == {<<<<"x">>, "pa">>, <<<<"r">>, "pb">>}

\* a client created with an empty caller table
InitClient ==
    /\ InitExec({})
    /\ budget = 0
    /\ tools = <<>>
    /\ callers = <<>>

NextClient ==
    \/ \E tool \in ClientDescriptors, reg \in Registrations :
          register_async_tool(tool, reg[1], reg[2])
    \/ \E tool \in ClientDescriptors, reg \in Registrations :
          register_sync_tool(tool, reg[1], reg[2])
    \/ \E source \in Sources, prefix \in Prefixes :
          \E listing \in Listings(source) :
              register_async_source(source, prefix, listing)
    \/ \E source \in Sources, prefix \in Prefixes :
          \E listing \in Listings(source) :
              register_sync_source(source, prefix, listing)
    \/ \E tool \in ClientDescriptors : tool_to_typescript_interface(tool)

SpecClient == InitClient /\ [][NextClient]_vars

\* the input schemas handed to the generator: with and without "type":
\* "object", with and without properties, with required arrays that list
\* all, some, none of the properties or a name that is no property
GenSchemas ==
    LET GenProperties ==
            ({NoProperties, <<>>}
             \cup {<<p>> : p \in {Owner, PullNumber, State}}
             \cup {<<p, q>> : p \in {Owner, State}, q \in {PullNumber, Owner}})
            \ {<<Owner, Owner>>}
        GenRequired ==
            {<<>>, <<"owner">>, <<"state">>, <<"pull_number">>, <<"zz">>,
             <<"owner", "state">>, <<"state", "pull_number">>}
    IN  {JsonSchema(type, properties, required) :
            type \in {"object", "string", "none"}, properties \in GenProperties,
            required \in GenRequired}

\* a fresh generator and the descriptor it is called with
InitGen ==
    /\ InitExec({})
    /\ budget = 0
    /\ callers = <<>>
    /\ \E name \in {<<"g", ".", "p", "r">>, <<"g">>}, is_async \in BOOLEAN,
          inputs \in GenSchemas :
          tools = <<Descriptor(name, is_async, inputs)>>

NextGen == \E tool \in Range(tools) : tool_to_typescript_interface(tool)

SpecGen == InitGen /\ [][NextGen]_vars

(***************************************************************************)
(* Properties of the bridge.                                               *)
(***************************************************************************)
TaskIdx(e) == 1..Len(tasks[e])

\* the tasks that have called their provider
CalledTasks(e) == {i \in TaskIdx(e) : tasks[e][i].ncalls > 0}

Returned(e) == pc[e] = "done"

TimeoutError == SandboxError("v8", <<"execution timeout">>)

\* C1: every provider call, from a spawned task or from a sync stub in
\* place, passes the raw_name of the caller entry registered under the
\* tool's registered name: not that registered name, not the access path
C1_RawNameDispatch ==
    \A e \in execs :
        /\ \A i \in CalledTasks(e) :
              LET t == tasks[e][i]
              IN  /\ t.name = callers[t.tool].raw_name
                  /\ t.provider = callers[t.tool].provider
        /\ \A c \in sync_calls[e] :
              /\ c.name = callers[c.tool].raw_name
              /\ c.provider = callers[c.tool].provider

\* both kinds of provider have been called, under a raw name that is
\* neither the registered name nor the access path
C1_Witness ==
    \E e \in execs :
        /\ \E i \in CalledTasks(e) :
              /\ tasks[e][i].tool = NameAsync
              /\ tasks[e][i].name \notin {NameAsync, tool_access_path(NameAsync)}
        /\ \E c \in sync_calls[e] :
              /\ c.tool = NameSync
              /\ c.name \notin {NameSync, tool_access_path(NameSync)}

\* C2: once more than the timeout plus one poll interval has passed since
\* resolve_value started, and the top-level promise has not settled,
\* execute has returned the timeout error
C2_TimeoutBound ==
    \A e \in execs :
        (/\ clock[e] > TimeoutTicks + PollTicks
         /\ script[e].phase \notin {"fulfilled", "rejected"})
        => (Returned(e) /\ outcome[e] = TimeoutError)

\* C4: when execute has returned, no resolver is registered and the
\* pending counter is zero
C4_CleanAfterReturn ==
    \A e \in execs :
        Returned(e) => (DOMAIN resolvers[e] = {} /\ pending[e] = 0)

TasksOf(e, p) == {i \in TaskIdx(e) : tasks[e][i].id = p}

\* C5: every promise a stub returned belongs to exactly one task, a task
\* calls its provider once (never before it runs, never twice), and a
\* script that awaited promises and returns what it saw returns, for each
\* one, the value the provider of that task returned
C5_OneTaskOneCall ==
    \A e \in execs :
        /\ \A p \in returned[e] : Cardinality(TasksOf(e, p)) = 1
        /\ \A i \in TaskIdx(e) :
              /\ tasks[e][i].id \in returned[e]
              /\ tasks[e][i].ncalls = IF tasks[e][i].st = "spawned" THEN 0 ELSE 1
        /\ (Returned(e) /\ outcome[e].kind = "ok"
                /\ outcome[e].val.type = "object")
           => \A p \in DOMAIN outcome[e].val.seen :
                 \E i \in TasksOf(e, p) :
                    /\ tasks[e][i].st = "finished"
                    /\ tasks[e][i].res.ok
                    /\ outcome[e].val.seen[p] = Json(tasks[e][i].res.val)

\* two calls were awaited together, the second completed first, and the
\* script returned both results
C5_Witness ==
    \E e \in execs :
        /\ Returned(e)
        /\ outcome[e].kind = "ok"
        /\ outcome[e].val.type = "object"
        /\ DOMAIN outcome[e].val.seen = {1, 2}
        /\ outcome[e].val.seen[1] # outcome[e].val.seen[2]
        /\ settled[e] = <<2, 1>>

\* the promise of a task whose provider failed with Boom is the rejection
\* the top-level promise ended with
RejectedByProvider(e) ==
    /\ Returned(e)
    /\ script[e].phase = "rejected"
    /\ \E i \in TaskIdx(e) :
          /\ tasks[e][i].res = ResErr(Boom)
          /\ promises[e][tasks[e][i].id].state = "rejected"
          /\ promises[e][tasks[e][i].id].value = script[e].result

C7_RejectionIsToolError ==
    \A e \in execs :
        (Returned(e) /\ script[e].phase = "rejected")
        => LET v == script[e].result
           IN  /\ outcome[e].kind = "tool"
               /\ v.type = "string" => outcome[e].msg = v.msg
               /\ v.type \in {"Error", "TypeError"}
                     => outcome[e].msg = <<v.type, ": ">> \o v.msg
               /\ v.type = "symbol" => outcome[e].msg = <<"promise rejected">>

\* a sync provider failed and the script did not catch the exception
C7_Witness ==
    \E e \in execs :
        /\ Returned(e)
        /\ script[e].phase = "rejected"
        /\ script[e].result = ErrorValue(<<"tool call failed: ">> \o Bang)
        /\ outcome[e].kind = "tool"

InChan(e, id) == \E k \in 1..Len(chan[e]) : chan[e][k].id = id

Applied(e, id) == id \in DOMAIN promises[e] /\ promises[e][id].settles > 0

Running(e) == pc[e] \notin {"idle", "done"}

\* the script awaits promises whose completions have all been sent before
\* the deadline
AwaitedAllSent(e) ==
    /\ Running(e)
    /\ script[e].phase = "awaiting"
    /\ script[e].awaiting # {}
    /\ \A p \in script[e].awaiting : InChan(e, p) \/ Applied(e, p)
    /\ clock[e] <= TimeoutTicks

Abandoned(e) == Returned(e) /\ outcome[e] = TimeoutError

ExecState(e) ==
    <<pc[e], global[e], next_id[e], pending[e], resolvers[e], promises[e],
      settled[e], chan[e], rx_alive[e], sync_calls[e], script[e], called[e],
      returned[e], clock[e], waited[e], outcome[e]>>

\* C10: after execute returned "execution timeout", a task it left behind
\* can still take its steps, and a step of it changes nothing but the
\* task itself: not the channel, not a resolver or promise, not the
\* outcome of the finished execution, and nothing of another execution
C10_AbandonedSendNoEffect ==
    /\ [](\A e \in execs : Abandoned(e) =>
             \A i \in TaskIdx(e) :
                /\ tasks[e][i].st = "spawned" => ENABLED TaskCall(e, i)
                /\ tasks[e][i].st = "called" =>
                      ENABLED (\E res \in ProviderResults(tasks[e][i].provider, tasks[e][i].args) :
                                  TaskSend(e, i, res))
                /\ tasks[e][i].st \in {"spawned", "called", "finished"})
    /\ [][\A e \in execs : Abandoned(e) =>
             /\ ExecState(e)' = ExecState(e)
             /\ tasks'[e] # tasks[e] =>
                   \A e2 \in execs \ {e} :
                      ExecState(e2)' = ExecState(e2) /\ tasks'[e2] = tasks[e2]]_vars

\* a task finished after its execution had returned the timeout (its
\* resolver is still registered and its completion is in no channel) while
\* the other execution is running
C10_Witness ==
    \E e \in execs, e2 \in execs :
        /\ e2 # e
        /\ Abandoned(e)
        /\ Running(e2)
        /\ \E i \in TaskIdx(e) :
              /\ tasks[e][i].st = "finished"
              /\ tasks[e][i].id \in DOMAIN resolvers[e]
              /\ ~InChan(e, tasks[e][i].id)
              /\ ~InChan(e2, tasks[e][i].id)

Installed(e) == pc[e] \notin {"idle", "init_v8"}

\* C8: after installation every tool's access path resolves to a callable
\* on the global object, whatever the order of the tool list
C8_EveryPathCallable ==
    \A e \in execs :
        Installed(e) =>
            \A i \in DOMAIN tools :
                IsCallable(Lookup(global[e], tool_access_path(tools[i].name)))

\* the provider calls that the script's k-th stub invocation led to
CallsOf(e, k) ==
    {[tool |-> tasks[e][i].tool, provider |-> tasks[e][i].provider,
      name |-> tasks[e][i].name] :
        i \in {j \in TaskIdx(e) : tasks[e][j].args = parsed_args(ArgOf(k))}}
    \cup {[tool |-> c.tool, provider |-> c.provider, name |-> c.name] :
             c \in {d \in sync_calls[e] : d.args = parsed_args(ArgOf(k))}}

\* C9: a script call at the access path of a registered tool T leads to no
\* provider call but one to T's own provider under T's raw_name
C9_PathReachesOwnProvider ==
    \A e \in execs :
        \A k \in DOMAIN called[e], i \in DOMAIN tools :
            called[e][k] = tool_access_path(tools[i].name) =>
                \A c \in CallsOf(e, k) :
                    /\ c.provider = callers[tools[i].name].provider
                    /\ c.name = callers[tools[i].name].raw_name

\* everything an execution owns
OwnState(e) == <<ExecState(e), tasks[e]>>

\* the completion the task i of execution e sends
SentBy(e, i) == Completion(tasks[e][i].id, MapErr(tasks[e][i].res))

\* C11: concurrent executions share no bridge state: every completion in
\* the channel of an execution was sent by a finished task of that
\* execution, every promise it settled was settled with what its own task
\* for that id sent, and no step changes the state of two executions
C11_ExecutionsIsolated ==
    /\ [](\A e \in execs :
            /\ \A k \in 1..Len(chan[e]) :
                  \E i \in TaskIdx(e) :
                     tasks[e][i].st = "finished" /\ chan[e][k] = SentBy(e, i)
            /\ \A id \in DOMAIN promises[e] :
                  Applied(e, id) =>
                     \E i \in TasksOf(e, id) :
                        /\ tasks[e][i].st = "finished"
                        /\ promises[e][id].state =
                              CompletionSettles(SentBy(e, i).result).state
                        /\ promises[e][id].value =
                              CompletionSettles(SentBy(e, i).result).value)
    /\ [][\A e \in execs, e2 \in execs :
             (e # e2 /\ OwnState(e)' # OwnState(e))
             => OwnState(e2)' = OwnState(e2)]_vars

\* both executions allocated the id 1, and each settled its promise 1 with
\* the result of its own task: the two results differ
C11_Witness ==
    /\ execs = {1, 2}
    /\ Applied(1, 1) /\ Applied(2, 1)
    /\ promises[1][1].state = "fulfilled"
    /\ promises[2][1].state = "rejected"
    /\ next_id[1] = 2 /\ next_id[2] = 2

(***************************************************************************)
(* Properties of the client.                                               *)
(***************************************************************************)
ToolOps == {"register_async_tool", "register_sync_tool"}

SourceOps == {"register_async_source", "register_sync_source"}

KindOf(op) ==
    IF op \in {"register_async_tool", "register_async_source"}
    THEN "Async" ELSE "Sync"

LastCall == history[Len(history)]

\* C12: a register_async_tool or register_sync_tool call with descriptor d,
\* raw_name r and caller c leaves under d.name the entry of this call:
\* get_tool(d.name) is d as the call stored it (is_async set by the
\* operation), the entry's raw_name is r and its caller is c in the variant
\* of the operation, one entry carries that name, and the entry under every
\* other name is the one that was there before
C12_RegisterInsertsOrReplaces ==
    [][(history' # history /\ LastCall'.op \in ToolOps) =>
          LET c == LastCall'
              d == c.tool
              is_async == KindOf(c.op) = "Async"
          IN  /\ get_tool(callers', d.name) = [d EXCEPT !.is_async = is_async]
              /\ callers'[d.name].raw_name = c.raw_name
              /\ callers'[d.name].provider = c.caller
              /\ callers'[d.name].kind = KindOf(c.op)
              /\ Cardinality({k \in DOMAIN callers' :
                                 callers'[k].tool.name = d.name}) = 1
              /\ DOMAIN callers' = DOMAIN callers \cup {d.name}
              /\ \A k \in DOMAIN callers :
                    k # d.name => callers'[k] = callers[k]]_vars

\* a second registration under a name replaced the first, next to an entry
\* under another name
C12_Witness ==
    /\ Len(history) = 2
    /\ history[1].op = "register_async_source"
    /\ history[1].ret = "Ok(())"
    /\ history[2].op = "register_sync_tool"
    /\ history[2].tool.name \in DOMAIN callers
    /\ Cardinality(DOMAIN callers) = 2
    /\ history[2].tool.name = apply_prefix(history[1].prefix, <<"x">>)
    /\ history[2].tool.inputs # Listed(history[1].source)[1].inputs
    /\ history[2].caller # history[1].source
    /\ get_tool(callers, history[2].tool.name).inputs = history[2].tool.inputs

\* what the stub that inject_tools builds from an entry of a table does when
\* a script calls it once
FirstCall(entry, table) ==
    tool_callback([next_id |-> 1, pending |-> 0, resolvers |-> <<>>,
                   promises |-> <<>>, tasks |-> <<>>, sync_calls |-> {},
                   ret |-> Undefined],
                  ToolCallbackState(entry.tool, table), ArgOf(1), TRUE,
                  ResOk(parsed_args(ArgOf(1))))

\* the provider and the name of the provider call that a call through the
\* entry makes
PassedBy(entry, table) ==
    LET s == FirstCall(entry, table)
    IN  {<<t.provider, t.name>> : t \in Range(s.tasks)} \cup
        {<<c.provider, c.name>> : c \in s.sync_calls}

\* C13: a register_async_source or register_sync_source call whose provider
\* lists its tools leaves, for every listed descriptor of name n, an entry
\* under prefix.n whose descriptor is named prefix.n, whose raw_name is n and
\* whose caller is the provider in the variant of the operation; a script
\* call through the stub of that entry calls that provider with n
C13_SourceRegistersPrefixed ==
    [][(history' # history /\ LastCall'.op \in SourceOps /\ LastCall'.listing.ok) =>
          LET c == LastCall'
          IN  \A i \in 1..Len(c.listing.val) :
                 LET n == c.listing.val[i].name
                     key == c.prefix \o <<".">> \o n
                 IN  /\ key \in DOMAIN callers'
                     /\ callers'[key].tool.name = key
                     /\ callers'[key].raw_name = n
                     /\ callers'[key].provider = c.source
                     /\ callers'[key].kind = KindOf(c.op)
                     /\ PassedBy(callers'[key], callers') = {<<c.source, n>>}]_vars

\* a source that lists two tools was registered after another under the
\* same prefix
C13_Witness ==
    /\ Len(history) = 2
    /\ history[1].op = "register_sync_source" /\ history[1].listing.ok
    /\ history[2].op = "register_async_source" /\ history[2].listing.ok
    /\ history[1].prefix = history[2].prefix
    /\ history[1].source # history[2].source
    /\ Len(history[2].listing.val) = 2
    /\ \A i \in 1..2 :
          LET n == history[2].listing.val[i].name
          IN  callers[history[2].prefix \o <<".">> \o n].raw_name = n

(***************************************************************************)
(* Properties of stubs and of the driver.                                  *)
(***************************************************************************)
\* the tools of the list that have no entry in the caller table
Uncallered == {i \in 1..Len(tools) : tools[i].name \notin DOMAIN callers}

UncalleredPaths == {tool_access_path(tools[i].name) : i \in Uncallered}

MissingCallerErrors ==
    {ErrorValue(<<"async caller missing">>), ErrorValue(<<"sync caller missing">>),
     ErrorValue(<<"failed to create promise resolver">>)}

\* C14: for a tool without an entry in the caller table, a stub is bound at
\* its access path once the tools are injected, and every call of that stub
\* throws an Error into the script, which the script catches (and goes on) or
\* which rejects its top-level promise; the call spawns no task and makes no
\* provider call
C14_NoCallerStubThrows ==
    /\ [](\A e \in execs : pc[e] \notin {"idle", "init_v8"} =>
             \A i \in Uncallered :
                LET f == Lookup(global[e], tool_access_path(tools[i].name))
                IN  /\ IsCallable(f)
                    /\ f.st.tool_name = tools[i].name
                    /\ f.st.async_caller = NoCaller
                    /\ f.st.sync_caller = NoCaller)
    /\ [][\A e \in execs :
            (/\ Len(called'[e]) = Len(called[e]) + 1
             /\ called'[e][Len(called'[e])] \in UncalleredPaths) =>
               /\ \E err \in MissingCallerErrors :
                     \/ script'[e] = [script[e] EXCEPT !.last = err]
                     \/ script'[e] = Ended("rejected", err)
               /\ tasks'[e] = tasks[e]
               /\ sync_calls'[e] = sync_calls[e]
               /\ returned'[e] = returned[e]]_vars

\* a script called both stubs without caller (the async one got as far as
\* its caller check), caught both errors and goes on
C14_Witness ==
    /\ called[1] = <<tool_access_path(NameNoAsync), tool_access_path(NameNoSync)>>
    /\ script[1].phase = "running"
    /\ script[1].last = ErrorValue(<<"sync caller missing">>)
    /\ next_id[1] = 2
    /\ tasks[1] = <<>> /\ sync_calls[1] = {}

\* the script of e has called stubs, and every stub it called is a sync one
SyncOnly(e) ==
    /\ Len(called[e]) >= 1
    /\ \A k \in 1..Len(called[e]) :
          LET f == Lookup(global[e], called[e][k])
          IN  IsCallable(f) /\ ~f.st.is_async

\* no id allocated, no resolver registered, no task spawned, no completion sent
NoAsyncMachinery(e) ==
    /\ next_id[e] = 1
    /\ pending[e] = 0
    /\ resolvers[e] = <<>>
    /\ promises[e] = <<>>
    /\ tasks[e] = <<>>
    /\ chan[e] = <<>>

\* C15 as stated: a script whose tool calls all go to sync tools exercises no
\* async machinery, and the driver never reaches its blocking wait
C15_SyncOnlyNoPoll ==
    \A e \in execs : SyncOnly(e) => NoAsyncMachinery(e) /\ pc[e] # "poll"

\* C15: a script whose tool calls all go to sync tools exercises no async
\* machinery; when it has returned or thrown, the driver returns its result
\* at the first inspection of the top-level promise, without reaching the
\* blocking wait; the driver reaches the blocking wait only while the script
\* awaits a promise that no tool call made
C15_SyncOnlyNoAsync ==
    \A e \in execs : SyncOnly(e) =>
       /\ NoAsyncMachinery(e)
       /\ script[e].phase \in {"fulfilled", "rejected"} =>
             /\ pc[e] # "poll"
             /\ clock[e] = 0
             /\ pc[e] = "done" => outcome[e] = InspectPromise(script[e], 0)
       /\ pc[e] = "poll" => script[e].phase = "awaiting" /\ script[e].awaiting = {}

\* a script called a sync stub twice, returned what it got, and the driver
\* returned that
C15_Witness ==
    /\ SyncOnly(1)
    /\ Len(called[1]) = 2
    /\ sync_calls[1] # {}
    /\ script[1].phase = "fulfilled"
    /\ pc[1] = "done"
    /\ outcome[1] = Ok(script[1].result)
    /\ script[1].result.type = "object"
    /\ script[1].result.last = json_to_v8(parsed_args(ArgOf(2)))

\* the executions that have created their isolate
HasIsolate(e) == pc[e] \notin {"idle", "init_v8"}

\* C16: over the executions of a process, one after another or at the same
\* time, the platform bootstrap is started at most once, by one thread, has
\* run exactly once when any execution has its isolate, and is complete
\* before any execution creates its isolate
C16_BootstrapOnce ==
    /\ v8.platforms <= 1
    /\ Cardinality({e \in execs : pc[e] = "init_v8"}) <= 1
    /\ (\E e \in execs : pc[e] = "init_v8") <=> v8.INIT = "running"
    /\ \A e \in execs : HasIsolate(e) => v8.INIT = "complete" /\ v8.platforms = 1

\* two executions hold an isolate at the same time, after one bootstrap
C16_Witness ==
    /\ execs = {1, 2}
    /\ pc[1] = "poll" /\ pc[2] = "run_script"
    /\ v8.platforms = 1

(***************************************************************************)
(* Properties of the interface generator.                                  *)
(***************************************************************************)
\* the calls of tool_to_typescript_interface made so far
InterfaceCalls ==
    {i \in 1..Len(history) : history[i].op = "tool_to_typescript_interface"}

\* C17: on one generator, the calls of tool_to_typescript_interface with an
\* equal descriptor have all returned the same text, and a further call with
\* that descriptor would return that text again, whatever other calls the
\* client has seen in between
C17_InterfaceIdempotent ==
    /\ \A i, j \in InterfaceCalls :
          history[i].tool = history[j].tool => history[i].ret = history[j].ret
    /\ \A i \in InterfaceCalls :
          Interface(cache, history[i].tool).text = history[i].ret

\* the generator was called twice with one descriptor and returned the text
\* it generated the first time
C17_Witness ==
    /\ InterfaceCalls = {1, 2}
    /\ history[1].tool = history[2].tool
    /\ Contains(history[1].tool.name, ".")
    /\ history[2].ret = interface_string(history[2].tool)
    /\ DOMAIN cache = {history[1].tool.name}

\* the lines of a text
Lines(text) == Range(Split(text, "\n"))

\* the declaration of a property in the interface of a namespace
Declared(prop, marker) ==
    <<"    ", prop.name>> \o marker \o <<": ">>
    \o json_schema_to_typescript_type(prop) \o <<";">>

PropertiesOf(schema) ==
    IF schema.properties = NoProperties THEN {} ELSE Range(schema.properties)

\* the calls that generated the interface of a tool with a dotted name
NamespacedCalls ==
    {i \in InterfaceCalls :
        /\ Contains(history[i].tool.name, ".")
        /\ history[i].ret = interface_string(history[i].tool)}

MarkerIffRequired(i, prop) ==
    LET required == Range(history[i].tool.inputs.required)
        lines == Lines(history[i].ret)
    IN  IF prop.name \in required
        THEN Declared(prop, <<>>) \in lines /\ Declared(prop, <<"?">>) \notin lines
        ELSE Declared(prop, <<"?">>) \in lines /\ Declared(prop, <<>>) \notin lines

\* C18 as stated: in the interface text of a dotted-name tool, every
\* property of every input schema is declared without `?` when the
\* `required` array lists its name, and with `?` otherwise
C18_MarkerIffRequired ==
    \A i \in NamespacedCalls :
       \A prop \in PropertiesOf(history[i].tool.inputs) : MarkerIffRequired(i, prop)

\* C18: in the interface text of a dotted-name tool whose input schema has
\* "type": "object", every property is declared without `?` when the
\* `required` array lists its name, and with `?` otherwise; for an input
\* schema of another type or without type no property is declared, the
\* interface holds the index signature instead
C18_MarkerIffRequiredInObject ==
    \A i \in NamespacedCalls :
       LET inputs == history[i].tool.inputs
       IN  \A prop \in PropertiesOf(inputs) :
              IF inputs.type = "object" THEN MarkerIffRequired(i, prop)
              ELSE /\ Declared(prop, <<>>) \notin Lines(history[i].ret)
                   /\ Declared(prop, <<"?">>) \notin Lines(history[i].ret)
                   /\ <<"    [key: string]: any;">> \in Lines(history[i].ret)

\* the interface of a dotted-name tool declares a required property with a
\* description and an optional property with an enum
C18_Witness ==
    /\ NamespacedCalls # {}
    /\ \E i \in NamespacedCalls :
          /\ history[i].tool.inputs =
                JsonSchema("object", <<State, Owner>>, <<"owner">>)
          /\ <<"    ", "owner", ": ", "string", ";">> \in Lines(history[i].ret)
          /\ <<"    ", "state", "?", ": ", "\"", "open", "\"", " | ",
               "\"", "closed", "\"", ";">> \in Lines(history[i].ret)

(***************************************************************************)
(* Properties of resolvers.                                                *)
(***************************************************************************)
\* the driver of e takes a completion from the channel in this step
Receives(e) == chan[e] # <<>> /\ chan'[e] = Tail(chan[e])

\* a completion that carries the id of a promise of e, with any result
CompletionsFor(e) ==
    {Completion(id, result) :
        id \in DOMAIN promises[e], result \in {ResOk("late"), ResErr(Boom)}}

Balanced(b) == b.pending = Cardinality(DOMAIN b.resolvers)

\* C20: between the steps of the engine thread, pending equals the number of
\* resolvers registered, after stub invocations that returned a promise or
\* threw and after the completions applied; and applying one more
\* completion, with the id of a registered resolver, of a settled one or
\* with an id never allocated, keeps them equal
C20_PendingCountsResolvers ==
    \A e \in execs :
       /\ Balanced(Bridge(e))
       /\ \A id \in 1..next_id[e], result \in {ResOk("late"), ResErr(Boom)} :
             Balanced(apply_completion(Bridge(e), Completion(id, result)))

\* a stub without caller threw after it registered its resolver, another
\* call's completion was applied: one resolver is left and pending is 1
C20_Witness ==
    /\ called[1] = <<tool_access_path(NameNoAsync), tool_access_path(NameAsync)>>
    /\ DOMAIN resolvers[1] = {1}
    /\ pending[1] = 1
    /\ Applied(1, 2)
    /\ tasks[1] # <<>>


(***************************************************************************)
(* Properties of in-flight calls.                                          *)
(***************************************************************************)
\* the completions in the channel of e that carry id
InChanCount(e, id) == Cardinality({k \in 1..Len(chan[e]) : chan[e][k].id = id})

\* C21: every id in resolvers belongs to exactly one executor task that was
\* spawned for it, and that task produces one completion with that id: once
\* the task has finished, its one completion is in the channel (or the
\* receiver is gone), and never two
C21_ResolverHasTask ==
    \A e \in execs :
        \A id \in DOMAIN resolvers[e] :
            /\ Cardinality(TasksOf(e, id)) = 1
            /\ InChanCount(e, id) <= 1
            /\ \A i \in TasksOf(e, id) :
                  tasks[e][i].st = "finished" =>
                      (InChanCount(e, id) = 1 \/ ~rx_alive[e])


\* one execution with one async tool whose provider may fail with a text
\* longer than the engine's longest string
InitLong ==
    /\ InitExec({1})
    /\ budget = MaxCalls
    /\ tools = <<Tool(NameAsync, TRUE)>>
    /\ callers = NameAsync :>
           ToolCallerEntry(Tool(NameAsync, TRUE), <<"1", "-">>, "Async", "pl")

SpecLong == InitLong /\ [][Next]_vars


\* the resolver of id leaves the table of e in this step
Removed(e, id) == id \in DOMAIN resolvers[e] /\ id \notin DOMAIN resolvers'[e]

\* resolve or reject is invoked on the resolver of id in this step
Settled(e, id) ==
    /\ promises[e][id].settles = 0
    /\ promises'[e][id].settles = 1
    /\ promises'[e][id].state \in {"fulfilled", "rejected"}
    /\ settled'[e] = Append(settled[e], id)

\* the driver of e applies the completion of id in this step
Applies(e, id) == Receives(e) /\ Head(chan[e]).id = id

ResolverRegistered(e, id) == id \in DOMAIN promises[e]

TaskSpawned(e, id) == TasksOf(e, id) # {}

TaskAwaitsCaller(e, id) == \E i \in TasksOf(e, id) : tasks[e][i].ncalls > 0

CompletionSent(e, id) == \E i \in TasksOf(e, id) : tasks[e][i].st = "finished"

CompletionReceived(e, id) ==
    ResolverRegistered(e, id) /\ id \notin DOMAIN resolvers[e]

ResolverSettled(e, id) == Applied(e, id)

CallEvents(e, id) ==
    <<ResolverRegistered(e, id), TaskSpawned(e, id), TaskAwaitsCaller(e, id),
      CompletionSent(e, id), CompletionReceived(e, id), ResolverSettled(e, id)>>

\* C23: in every reachable state the events of a call that have happened are
\* an initial part of the order registered, spawned, awaits the caller,
\* sent, received, settled; an event that has happened stays so; a
\* completion is in the channel only between its sending and its reception;
\* and the driver receives no completion whose resolver is not registered
C23_EventsInOrder ==
    /\ [](\A e \in execs : \A id \in 1..next_id[e] :
            LET ev == CallEvents(e, id)
            IN  /\ \A k \in 2..6 : ev[k] => ev[k - 1]
                /\ InChan(e, id) => (ev[4] /\ ~ev[5]))
    /\ [][\A e \in execs :
            /\ \A id \in 1..next_id[e] :
                  LET before == CallEvents(e, id)
                      after == CallEvents(e, id)'
                  IN  \A k \in 1..6 : before[k] => after[k]
            /\ Receives(e) => Head(chan[e]).id \in DOMAIN resolvers[e]]_vars

\* the first call has gone through every event while the task of the second
\* awaits its provider
C23_Witness ==
    /\ \A k \in 1..6 : CallEvents(1, 1)[k]
    /\ CallEvents(1, 2) = <<TRUE, TRUE, TRUE, FALSE, FALSE, FALSE>>


(***************************************************************************)
(* The order of the steps of a driver-loop iteration.                      *)
(***************************************************************************)
\* execute returns in this step
Returns(e) == outcome[e] = NoOutcome /\ outcome'[e] # NoOutcome

\* the top-level promise is pending and no continuation is ready to run
StillPending(e) == script[e].phase = "awaiting" /\ ~Ready(e)

\* C24: an iteration begins with the drain (entered from run_script or from
\* the blocking wait), the checkpoint begins only when the drain found the
\* channel empty, and the promise is inspected only at the end of the
\* checkpoint; execute returns "execution timeout" only there, for a promise
\* still pending with nothing left to resume it, past the deadline; and a
\* promise found settled there is returned as its result or as a tool error,
\* whatever the clock says
C24_TimeoutCheckedLast ==
    [][\A e \in execs :
         /\ (pc[e] # "drain" /\ pc'[e] = "drain") => pc[e] \in {"run_script", "poll"}
         /\ (pc[e] # "checkpoint" /\ pc'[e] = "checkpoint") =>
               (pc[e] = "drain" /\ chan[e] = <<>>)
         /\ (Returns(e) /\ outcome'[e] = TimeoutError) =>
               /\ pc[e] = "checkpoint"
               /\ StillPending(e)
               /\ TimedOut(clock[e])
         /\ (Returns(e) /\ pc[e] = "checkpoint"
               /\ script[e].phase \in {"fulfilled", "rejected"}) =>
               outcome'[e] =
                  IF script[e].phase = "rejected"
                  THEN SandboxError("tool", RejectionMessage(script[e].result))
                  ELSE v8_value_to_json(script[e].result)
         /\ (pc[e] = "checkpoint" /\ pc'[e] # "checkpoint") =>
               (StillPending(e) \/ Returns(e))]_vars

\* a completion arrived after the deadline, the drain applied it, the
\* checkpoint resumed the script, and execute returned what the script saw
C24_Witness ==
    /\ Returned(1)
    /\ clock[1] > TimeoutTicks
    /\ outcome[1].kind = "ok"
    /\ outcome[1].val.type = "object"
    /\ DOMAIN outcome[1].val.seen = {1}


(***************************************************************************)
(* The order in which completions are applied.                             *)
(***************************************************************************)
\* the ids of the completions applied so far, followed by the ids of those
\* sent and not yet received: the order of sending
SendOrder(e) == settled[e] \o [k \in 1..Len(chan[e]) |-> chan[e][k].id]

\* C25: the driver takes completions from the head of the channel only, in
\* its drain and in its blocking wait, and a send adds at the tail only; a
\* completion taken is applied to its resolver in that step (unless its
\* message cannot be held by the engine, which ends execute), so the
\* resolvers are settled in the order of sending: none skipped, none twice,
\* none out of turn
C25_AppliedInSendOrder ==
    [][\A e \in execs :
         /\ Receives(e) =>
               /\ pc[e] \in {"drain", "poll"}
               /\ Head(chan[e]).id \in DOMAIN resolvers[e]
               /\ Head(chan[e]).id \notin DOMAIN resolvers'[e]
               /\ \/ SendOrder(e)' = SendOrder(e)
                  \/ /\ CompletionSettles(Head(chan[e]).result).state = "none"
                     /\ settled'[e] = settled[e]
                     /\ Returns(e)
         /\ (chan'[e] # chan[e] /\ ~Receives(e)) =>
               /\ \E i \in TaskIdx(e) :
                     chan'[e] = Append(chan[e], Completion(tasks[e][i].id,
                                                           MapErr(tasks'[e][i].res)))
               /\ settled'[e] = settled[e]
         /\ chan'[e] = chan[e] => settled'[e] = settled[e]
         /\ \A k \in 1..Len(settled[e]) :
               \A j \in 1..Len(settled[e]) : settled[e][k] = settled[e][j] => k = j]_vars

\* the completion of the second call was sent and applied before that of
\* the first, which the blocking wait received
C25_Witness ==
    /\ settled[1] = <<2, 1>>
    /\ chan[1] = <<>>
    /\ clock[1] > 0
    /\ promises[1][1].settles = 1 /\ promises[1][2].settles = 1


(***************************************************************************)
(* apply_completion on any completion: the driver from a state in which    *)
(* the channel holds two completions of registered, settled or unknown ids.*)
(***************************************************************************)
\* completions with the ids of two calls and with one that no call has got
StrayCompletions ==
    {Completion(id, result) :
        id \in {1, 2, 3},
        result \in {ResOk("late"), ResOk("deep"), ResErr(Boom), ResErr(TooLong)}}

\* resolve_value in its loop after two async calls: the resolver of the second
\* is registered, that of the first is registered or has been settled; the
\* driver is about to drain or sits in its blocking wait
InitApply ==
    /\ execs = {1}
    /\ budget = 2
    /\ tools = <<Tool(NameAsync, TRUE)>>
    /\ callers = BridgeCallers
    /\ history = <<>>
    /\ cache = Interfaces(<<>>, tools)
    /\ v8 = [INIT |-> "complete", platforms |-> 1]
    /\ pc \in [{1} -> {"drain", "poll"}]
    /\ global = [e \in {1} |-> inject_tools(tools, callers)]
    /\ next_id = [e \in {1} |-> 3]
    /\ \E R \in {{2}, {1, 2}} :
          /\ resolvers = [e \in {1} |-> [id \in R |-> id]]
          /\ pending = [e \in {1} |-> Cardinality(R)]
          /\ promises = [e \in {1} |->
                [id \in {1, 2} |->
                    IF id \in R THEN NewPromise
                    ELSE [state |-> "fulfilled", value |-> Json("m1"), settles |-> 1]]]
          /\ settled = [e \in {1} |-> IF 1 \in R THEN <<>> ELSE <<1>>]
    /\ chan \in [{1} -> {<<c, d>> : c \in StrayCompletions, d \in StrayCompletions}]
    /\ rx_alive = [e \in {1} |-> TRUE]
    /\ tasks = [e \in {1} |-> <<>>]
    /\ sync_calls = [e \in {1} |-> {}]
    /\ script = [e \in {1} |-> [NewScript EXCEPT !.phase = "awaiting", !.awaiting = {2}]]
    /\ called = [e \in {1} |-> <<tool_access_path(NameAsync), tool_access_path(NameAsync)>>]
    /\ returned = [e \in {1} |-> {1, 2}]
    /\ clock = [e \in {1} |-> 0]
    /\ waited = [e \in {1} |-> 0]
    /\ outcome = [e \in {1} |-> NoOutcome]

\* the steps of the driver that take a completion from the channel
NextApply == \E e \in execs : DrainRecv(e) \/ DrainEmpty(e) \/ Poll(e)

SpecApply == InitApply /\ [][NextApply]_vars

\* C26: a completion whose id is not in resolvers (never allocated, or of a
\* resolver already removed) is dropped when the driver receives it, from
\* the drain or from the blocking wait: resolvers, pending, the promises and
\* the settled resolvers stay as they are, execute does not return, and
\* the driver goes on with its drain
C26_UnknownIdDropped ==
    [][\A e \in execs :
         (Receives(e) /\ Head(chan[e]).id \notin DOMAIN resolvers[e]) =>
            /\ resolvers'[e] = resolvers[e]
            /\ pending'[e] = pending[e]
            /\ promises'[e] = promises[e]
            /\ settled'[e] = settled[e]
            /\ outcome'[e] = NoOutcome
            /\ pc'[e] = "drain"
            /\ apply_completion(Bridge(e), Head(chan[e])) = Bridge(e)]_vars

\* the driver took two completions: one with an id no call had got, which it
\* dropped, and the one of the registered resolver, which it applied; it
\* goes on
C26_Witness ==
    /\ chan[1] = <<>>
    /\ pc[1] = "drain"
    /\ settled[1] = <<2>>
    /\ resolvers[1] = (1 :> 1)
    /\ pending[1] = 1
    /\ promises[1][1] = NewPromise
    /\ outcome[1] = NoOutcome


(***************************************************************************)
(* Which thread changes what.                                              *)
(***************************************************************************)
\* what belongs to the engine thread of e: the engine, the script and the
\* shared bridge state
EngineState(e) ==
    <<pc[e], global[e], next_id[e], pending[e], resolvers[e], promises[e],
      settled[e], rx_alive[e], sync_calls[e], script[e], called[e],
      returned[e], outcome[e]>>

\* an executor task of e takes a step
TaskSteps(e) == {i \in TaskIdx(e) : tasks'[e][i] # tasks[e][i]}

\* the script invokes a stub in this step
StubInvoked(e) == called'[e] # called[e]

\* C27: resolvers and pending change only in steps of the engine thread that
\* invoke a stub or apply a received completion, and in those no task
\* takes a step; a step of an executor task is the call of its provider or
\* the sending of its one Completion, changes no engine, script or bridge
\* state, and adds at most that one Completion to the channel
C27_OnlyEngineThreadMutates ==
    [][\A e \in execs :
         /\ (resolvers'[e] # resolvers[e] \/ pending'[e] # pending[e]) =>
               /\ StubInvoked(e) \/ Receives(e)
               /\ pc[e] \in {"run_script", "checkpoint", "drain", "poll"}
               /\ TaskSteps(e) = {}
         /\ \A i \in TaskSteps(e) :
               /\ EngineState(e)' = EngineState(e)
               /\ \/ /\ tasks[e][i].st = "spawned"
                     /\ tasks'[e][i] = [tasks[e][i] EXCEPT !.st = "called", !.ncalls = 1]
                     /\ chan'[e] = chan[e]
                  \/ /\ tasks[e][i].st = "called"
                     /\ tasks'[e][i].st = "finished"
                     /\ chan'[e] \in
                           {chan[e],
                            Append(chan[e], Completion(tasks[e][i].id,
                                                       MapErr(tasks'[e][i].res)))}]_vars

\* a task sent its completion while the script was running on the engine
\* thread with its resolver registered
C27_Witness ==
    /\ pc[1] = "run_script"
    /\ script[1].phase = "running"
    /\ DOMAIN resolvers[1] = {1}
    /\ pending[1] = 1
    /\ InChan(1, 1)
    /\ tasks[1][1].st = "finished"


(***************************************************************************)
(* Installation through a binding that is not an object.                   *)
(***************************************************************************)
\* the namespace segment of the tool's access path
Namespace(tool) == Split(tool_access_path(tool.name), ".")[1]

\* the tool has a namespace segment that the global object of a new context
\* binds to a value that is not an object
NonObjectSegment(tool) ==
    LET parts == Split(tool_access_path(tool.name), ".")
    IN  /\ Len(parts) > 1
        /\ parts[1] \in DOMAIN ContextGlobal
        /\ ~is_object(ContextGlobal[parts[1]])

\* execute returned an error of inject_tools: before the script was compiled
InstallFailed(e) ==
    /\ Returned(e)
    /\ script[e].phase = "new"
    /\ outcome[e].kind \notin {"none", "ok"}
    /\ outcome[e] # SandboxError("v8", <<"script compile">>)

\* C28 as stated: with a tool whose namespace segment is bound to a
\* non-object value, installation fails with an install error and the
\* binding stays
C28_NonObjectSegmentFails ==
    \A e \in execs :
        (Installed(e) /\ \E i \in DOMAIN tools : NonObjectSegment(tools[i])) =>
            /\ InstallFailed(e)
            /\ \A i \in DOMAIN tools :
                  NonObjectSegment(tools[i]) =>
                      global[e][Namespace(tools[i])] = ContextGlobal[Namespace(tools[i])]

\* what the code does with a tool whose namespace segment is bound to a
\* non-object value (a built-in property that is not writable): installation
\* does not fail, execute goes on to compile and run the script; the binding
\* stays, the stub of the tool is reachable at no path, and a script call at
\* the tool's access path reaches no provider
NonObjectSegmentOrphans ==
    \A e \in execs :
        Installed(e) =>
            /\ ~InstallFailed(e)
            /\ \A i \in DOMAIN tools :
                  NonObjectSegment(tools[i]) =>
                      LET path == tool_access_path(tools[i].name)
                          segment == Namespace(tools[i])
                      IN  /\ global[e][segment] = ContextGlobal[segment]
                          /\ ~IsCallable(Lookup(global[e], path))
                          /\ \A k \in DOMAIN called[e] :
                                called[e][k] = path => CallsOf(e, k) = {}

\* the script called NaN.x, the call threw a TypeError that it did not
\* catch, and execute returned it as a tool error
NonObjectSegmentCalled ==
    /\ \E i \in DOMAIN tools : NonObjectSegment(tools[i])
    /\ called[1] = <<<<"N", "a", "N", ".", "x">>>>
    /\ global[1][<<"N", "a", "N">>] = NaNValue
    /\ script[1].phase = "rejected"
    /\ script[1].result.type = "TypeError"
    /\ Returned(1)
    /\ outcome[1].kind = "tool"


(***************************************************************************)
(* Stub invocations that throw.                                            *)
(***************************************************************************)
\* the stub invoked in this step threw: it returned no promise and no
\* value, and the script caught an Error or ended with it
StubThrew(e) ==
    /\ StubInvoked(e)
    /\ returned'[e] = returned[e]
    /\ \/ script'[e].phase = "rejected"
       \/ script'[e].last # script[e].last /\ script'[e].last.type = "Error"

\* the message of the Error the stub threw
ThrownMessage(e) ==
    IF script'[e].phase = "rejected" THEN script'[e].result.msg
    ELSE script'[e].last.msg

\* C29: a stub invocation that ends by throwing leaves the bridge state as
\* it was before the call: no resolver stays registered for it, pending is
\* not incremented and no executor task was spawned
C29_ThrowLeavesBridge ==
    [][\A e \in execs :
         StubThrew(e) =>
            /\ resolvers'[e] = resolvers[e]
            /\ pending'[e] = pending[e]
            /\ tasks'[e] = tasks[e]]_vars


\* what the code does: every throw but "async caller missing" leaves the
\* bridge state, the next id and the promises as they were
OtherThrowsLeaveBridge ==
    [][\A e \in execs :
         (StubThrew(e) /\ ThrownMessage(e) # <<"async caller missing">>) =>
            /\ resolvers'[e] = resolvers[e]
            /\ pending'[e] = pending[e]
            /\ tasks'[e] = tasks[e]
            /\ next_id'[e] = next_id[e]
            /\ promises'[e] = promises[e]]_vars


(***************************************************************************)
(* The channel while the driver loop runs.                                 *)
(***************************************************************************)
\* the engine thread of e is between the creation of the channel and the
\* return of execute
InExecute(e) == pc[e] \in {"run_script", "drain", "checkpoint", "poll"}

\* C30: while execute runs, a Sender of the channel is alive, also when no
\* task holds a clone, so the blocking wait never finds the channel
\* disconnected; execute never returns "execution incomplete"; and a script
\* whose top-level promise stays pending makes execute return "execution
\* timeout" and nothing else
C30_NeverDisconnected ==
    \A e \in execs :
        /\ InExecute(e) =>
              /\ Senders(e) >= 1
              /\ recv_timeout(chan[e], Senders(e), waited[e]) # "disconnected"
        /\ outcome[e] # SandboxError("v8", <<"execution incomplete">>)
        /\ (Returned(e) /\ script[e].phase = "awaiting") => outcome[e] = TimeoutError

\* the script made no tool call and awaited a promise that nothing settles;
\* execute returned "execution timeout"
C30_Witness ==
    /\ Returned(1)
    /\ called[1] = <<>>
    /\ tasks[1] = <<>>
    /\ script[1].phase = "awaiting"
    /\ script[1].awaiting = {}
    /\ outcome[1] = TimeoutError

(***************************************************************************)
(* Properties of the caller table and of the interface cache.              *)
(***************************************************************************)
\* the registrations the client has seen whose descriptor carried an is_async
\* that is not the kind of the operation
MiskindedCalls ==
    {i \in 1..Len(history) :
        /\ history[i].op \in ToolOps
        /\ history[i].tool.is_async # (KindOf(history[i].op) = "Async")}

\* C31: on a client created with an empty caller table, after any sequence
\* of register_async_tool, register_sync_tool, register_async_source and
\* register_sync_source calls, every entry is stored under the name of its
\* descriptor, its descriptor is async exactly when its caller is the Async
\* variant, and a call of the stub that inject_tools builds from the entry
\* throws neither "async caller missing" nor "sync caller missing"
C31_EntriesConsistent ==
    \A key \in DOMAIN callers :
        LET entry == callers[key]
            ret == FirstCall(entry, callers).ret
        IN  /\ key = entry.tool.name
            /\ entry.tool.is_async <=> (entry.kind = "Async")
            /\ ret.kind = "throw" =>
                  ret.val.msg \notin {<<"async caller missing">>,
                                      <<"sync caller missing">>}

\* register_sync_tool was handed a descriptor that said is_async, and a
\* source has filled the table as well: the entry of the tool is sync
C31_Witness ==
    /\ Len(history) = 2
    /\ 2 \in MiskindedCalls
    /\ history[1].op \in SourceOps /\ history[1].listing.ok
    /\ history[2].op = "register_sync_tool"
    /\ history[2].tool.is_async
    /\ ~callers[history[2].tool.name].tool.is_async
    /\ callers[history[2].tool.name].kind = "Sync"
    /\ Cardinality(DOMAIN callers) >= 2

\* the text a fresh generator returns for a descriptor
FreshText(tool) == Interface(<<>>, tool).text

\* C32: the text every tool_to_typescript_interface call of the client
\* returned for a descriptor is the text a fresh generator returns for that
\* descriptor, and for every registered tool the client's interface text is
\* the fresh text of the descriptor now in the table, also after the name
\* was registered again with another schema or another kind
C32_CacheCoherent ==
    /\ \A i \in InterfaceCalls : history[i].ret = FreshText(history[i].tool)
    /\ \A key \in DOMAIN callers :
          Interface(cache, callers[key].tool).text = FreshText(callers[key].tool)

\* the first descriptor the generator was called with under the name of
\* call i
FirstSeen(i) ==
    LET same == {j \in InterfaceCalls : history[j].tool.name = history[i].tool.name}
    IN  history[CHOOSE j \in same : \A k \in same : j <= k].tool

\* what the code does: a call returns the text of the first descriptor the
\* generator saw under that name, and the cache holds that text from then on
InterfaceOfFirstSeen ==
    /\ \A i \in InterfaceCalls : history[i].ret = FreshText(FirstSeen(i))
    /\ \A i \in InterfaceCalls :
          cache[history[i].tool.name] = FreshText(FirstSeen(i))

\* the interface of a registered tool was generated, the name was then
\* registered again with another descriptor, and the client still answers
\* with the first text
StaleInterface ==
    /\ Len(history) = 2
    /\ history[1].op = "tool_to_typescript_interface"
    /\ history[2].op \in ToolOps
    /\ history[2].tool.name = history[1].tool.name
    /\ LET now == callers[history[2].tool.name].tool
       IN  /\ now.inputs # history[1].tool.inputs
           /\ Interface(cache, now).text = history[1].ret
           /\ Interface(cache, now).text # FreshText(now)

\* C33: a register_async_source or register_sync_source call whose
\* provider fails to list its tools returns the provider's error and leaves
\* the caller table as it was: no entry is added, replaced or removed
C33_FailedListingChangesNothing ==
    [][(history' # history /\ LastCall'.op \in SourceOps /\ ~LastCall'.listing.ok) =>
          /\ LastCall'.ret = LastCall'.listing.msg
          /\ callers' = callers]_vars

\* a source was registered, and a second registration of the same provider
\* under the same prefix in the other kind failed at list_tools: the
\* entries of the first are still there
C33_Witness ==
    /\ Len(history) = 2
    /\ history[1].op \in SourceOps /\ history[1].listing.ok
    /\ history[2].op \in SourceOps /\ ~history[2].listing.ok
    /\ history[2].op # history[1].op
    /\ history[2].source = history[1].source
    /\ history[2].prefix = history[1].prefix
    /\ history[2].ret = Boom
    /\ callers = IF history[1].op = "register_async_source"
                 THEN RegisterAsyncAll(<<>>, history[1].listing.val,
                                       history[1].prefix, history[1].source)
                 ELSE RegisterSyncAll(<<>>, history[1].listing.val,
                                      history[1].prefix, history[1].source)
    /\ Cardinality(DOMAIN callers) = 2

====
